---- MODULE Spec2Model ----
(***************************************************************************)
(* Model of the streaming-response pipeline of ruska-cli:                  *)
(*   source/lib/services/stream-service.ts  (StreamService)                *)
(*   source/types/stream.ts                 (type guards)                  *)
(*   source/lib/output/error-handler.ts     (classifyError)                *)
(* Text is a sequence of one-character strings; a byte stream is a         *)
(* sequence of byte tokens, where an ASCII byte is written as its          *)
(* character and "C3"/"A9" are the two bytes of the UTF-8 encoding of      *)
(* U+00E9.  JSON values are tagged records.                                *)
(***************************************************************************)
EXTENDS Integers, Sequences, FiniteSets, TLC

(***************************************************************************)
(* Bounds of the model                                                     *)
(***************************************************************************)
\* connection timeout of the session, in clock ticks
connectionTimeoutMs == 2
\* idle timeout of a distributed stream, in clock ticks
streamIdleTimeoutMs == 2
\* number of abort() calls a consumer makes on one handle
MaxAborts == 2
\* number of chunks the body stream holds unread
MaxQueue == 1
\* in a run of the JSON mode a chunk has this many bytes or twice as many
ChunkStep == 8

(***************************************************************************)
(* JavaScript strings                                                      *)
(***************************************************************************)
WhiteSpace == {" ", "\t", "\r", "\n"}

RECURSIVE TrimStart(_)
TrimStart(s) ==
  IF s # <<>> /\ Head(s) \in WhiteSpace THEN TrimStart(Tail(s)) ELSE s

RECURSIVE TrimEnd(_)
TrimEnd(s) ==
  IF s # <<>> /\ s[Len(s)] \in WhiteSpace
  THEN TrimEnd(SubSeq(s, 1, Len(s) - 1)) ELSE s

\* String.prototype.trim
Trim(s) == TrimEnd(TrimStart(s))

\* String.prototype.startsWith
StartsWith(s, p) == Len(s) >= Len(p) /\ SubSeq(s, 1, Len(p)) = p

\* String.prototype.endsWith
EndsWith(s, p) ==
  Len(s) >= Len(p) /\ SubSeq(s, Len(s) - Len(p) + 1, Len(s)) = p

\* String.prototype.slice(n) for 0 <= n
Slice(s, n) == IF n >= Len(s) THEN <<>> ELSE SubSeq(s, n + 1, Len(s))

\* String.prototype.split('\n'): the pieces between the separators; always
\* at least one piece, the last one being what follows the last separator.
\* the positions of the separators, and the k-th of them (0 before the
\* first, Len(s) + 1 after the last)
SeparatorsOf(s) == {i \in 1 .. Len(s) : s[i] = "\n"}
SeparatorAt(s, k) ==
  IF k = 0 THEN 0
  ELSE IF k > Cardinality(SeparatorsOf(s)) THEN Len(s) + 1
  ELSE CHOOSE p \in SeparatorsOf(s) :
         Cardinality({q \in SeparatorsOf(s) : q <= p}) = k

Split(s) ==
  [k \in 1 .. (Cardinality(SeparatorsOf(s)) + 1) |->
     SubSeq(s, SeparatorAt(s, k - 1) + 1, SeparatorAt(s, k) - 1)]

(***************************************************************************)
(* TextDecoder('utf-8').decode(value, {stream: true})                      *)
(***************************************************************************)
LeadByte == "C3"
ContByte == "A9"
EAcute == "e'"
Replacement == "FFFD"

\* What each byte of b adds to the text, as two places per byte: in the
\* first what ends the sequence a lead byte before it began (the character,
\* or U+FFFD when the byte does not continue it), in the second the byte
\* itself unless it begins or continues a sequence.
Emitted(x) == x # "none"
DecodeItems(b) ==
  [j \in 1 .. (2 * Len(b)) |->
     IF j % 2 = 1
     THEN IF j > 1 /\ b[(j - 1) \div 2] = LeadByte
          THEN IF b[(j + 1) \div 2] = ContByte THEN EAcute ELSE Replacement
          ELSE "none"
     ELSE IF b[j \div 2] = LeadByte THEN "none"
          ELSE IF b[j \div 2] = ContByte
               THEN IF j > 2 /\ b[(j \div 2) - 1] = LeadByte THEN "none"
                    ELSE Replacement
          ELSE b[j \div 2]]

\* Decodes the bytes of all: the text, and the incomplete sequence kept for
\* the next chunk.
DecodeAll(all) ==
  [text |-> SelectSeq(DecodeItems(all), Emitted),
   pending |-> IF all # <<>> /\ all[Len(all)] = LeadByte THEN <<LeadByte>>
               ELSE <<>>]

\* Decodes the bytes after the state `pending` (an incomplete sequence kept
\* from the chunk before) and returns the text, after `out`, and the new
\* pending bytes.
Utf8Decode(pending, bytes, out) ==
  [text |-> out \o DecodeAll(pending \o bytes).text,
   pending |-> DecodeAll(pending \o bytes).pending]

(***************************************************************************)
(* JSON values and JSON.parse                                              *)
(***************************************************************************)
Undefined == [t |-> "undef"]
JNull == [t |-> "null"]
JBool(b) == [t |-> "bool", b |-> b]
JNum(n) == [t |-> "num", n |-> n]
JStr(s) == [t |-> "str", s |-> s]
JArr(a) == [t |-> "arr", a |-> a]
JObj(o) == [t |-> "obj", o |-> o]

Digits == {"0", "1", "2", "3", "4", "5", "6", "7", "8", "9"}
DigitVal(c) ==
  CASE c = "0" -> 0 [] c = "1" -> 1 [] c = "2" -> 2 [] c = "3" -> 3
    [] c = "4" -> 4 [] c = "5" -> 5 [] c = "6" -> 6 [] c = "7" -> 7
    [] c = "8" -> 8 [] c = "9" -> 9

ParseFail == [ok |-> FALSE, val |-> Undefined, pos |-> 0]
ParseOk(v, p) == [ok |-> TRUE, val |-> v, pos |-> p]

RECURSIVE SkipWs(_, _)
SkipWs(s, i) ==
  IF i <= Len(s) /\ s[i] \in WhiteSpace THEN SkipWs(s, i + 1) ELSE i

RECURSIVE ParseChars(_, _, _)

\* the character after a backslash: the escapes of a quote, a backslash,
\* a slash and a line feed
ParseEscape(s, i, acc) ==
  IF i > Len(s) THEN ParseFail
  ELSE IF s[i] \in {"\"", "\\", "/"}
       THEN ParseChars(s, i + 1, Append(acc, s[i]))
  ELSE IF s[i] = "n" THEN ParseChars(s, i + 1, Append(acc, "\n"))
  ELSE ParseFail

\* the characters after the opening quote up to the closing quote
ParseChars(s, i, acc) ==
  IF i > Len(s) THEN ParseFail
  ELSE IF s[i] = "\"" THEN ParseOk(JStr(acc), i + 1)
  ELSE IF s[i] = "\\" THEN ParseEscape(s, i + 1, acc)
  ELSE IF s[i] \in {"\n", "\r", "\t"} THEN ParseFail
  ELSE ParseChars(s, i + 1, Append(acc, s[i]))

RECURSIVE ParseDigits(_, _, _)
ParseDigits(s, i, acc) ==
  IF i <= Len(s) /\ s[i] \in Digits
  THEN ParseDigits(s, i + 1, 10 * acc + DigitVal(s[i]))
  ELSE ParseOk(JNum(acc), i)

ParseLiteral(s, i, word, v) ==
  IF i + Len(word) - 1 <= Len(s) /\ SubSeq(s, i, i + Len(word) - 1) = word
  THEN ParseOk(v, i + Len(word)) ELSE ParseFail

RECURSIVE ParseValue(_, _)
RECURSIVE ParseElements(_, _, _)
RECURSIVE ParseMembers(_, _, _)

\* `[` was read; j is the position of the next character that counts
ParseArrayAt(s, i, j) ==
  IF j <= Len(s) /\ s[j] = "]" THEN ParseOk(JArr(<<>>), j + 1)
  ELSE ParseElements(s, i, <<>>)

\* `{` was read; j is the position of the next character that counts
ParseObjectAt(s, i, j) ==
  IF j <= Len(s) /\ s[j] = "}" THEN ParseOk(JObj(<<>>), j + 1)
  ELSE ParseMembers(s, i, <<>>)

\* a JSON value that starts at position i, which is not white space
ParseValueAt(s, i) ==
  IF i > Len(s) THEN ParseFail
  ELSE IF s[i] = "\"" THEN ParseChars(s, i + 1, <<>>)
  ELSE IF s[i] = "0" THEN ParseOk(JNum(0), i + 1)
  ELSE IF s[i] \in Digits THEN ParseDigits(s, i, 0)
  ELSE IF s[i] = "n" THEN ParseLiteral(s, i, <<"n", "u", "l", "l">>, JNull)
  ELSE IF s[i] = "t"
       THEN ParseLiteral(s, i, <<"t", "r", "u", "e">>, JBool(TRUE))
  ELSE IF s[i] = "f"
       THEN ParseLiteral(s, i, <<"f", "a", "l", "s", "e">>, JBool(FALSE))
  ELSE IF s[i] = "[" THEN ParseArrayAt(s, i + 1, SkipWs(s, i + 1))
  ELSE IF s[i] = "{" THEN ParseObjectAt(s, i + 1, SkipWs(s, i + 1))
  ELSE ParseFail

\* a JSON value that starts at position i (leading white space skipped)
ParseValue(s, i) == ParseValueAt(s, SkipWs(s, i))

\* the element val was read; j is the position of the separator
ParseElementsSep(s, acc, val, j) ==
  IF j > Len(s) THEN ParseFail
  ELSE IF s[j] = "]" THEN ParseOk(JArr(Append(acc, val)), j + 1)
  ELSE IF s[j] = "," THEN ParseElements(s, j + 1, Append(acc, val))
  ELSE ParseFail

ParseElementsAfter(s, acc, r) ==
  IF ~r.ok THEN ParseFail
  ELSE ParseElementsSep(s, acc, r.val, SkipWs(s, r.pos))

\* value (, value)* ] with the elements before position i in acc
ParseElements(s, i, acc) == ParseElementsAfter(s, acc, ParseValue(s, i))

\* the member key: val was read; j is the position of the separator.
\* A repeated key keeps its last value.
ParseMembersSep(s, obj, j) ==
  IF j > Len(s) THEN ParseFail
  ELSE IF s[j] = "}" THEN ParseOk(JObj(obj), j + 1)
  ELSE IF s[j] = "," THEN ParseMembers(s, j + 1, obj)
  ELSE ParseFail

ParseMembersValue(s, acc, key, r) ==
  IF ~r.ok THEN ParseFail
  ELSE ParseMembersSep(s,
         [x \in (DOMAIN acc) \cup {key} |->
            IF x = key THEN r.val ELSE acc[x]],
         SkipWs(s, r.pos))

ParseMembersColon(s, acc, key, c) ==
  IF c > Len(s) \/ s[c] # ":" THEN ParseFail
  ELSE ParseMembersValue(s, acc, key, ParseValue(s, c + 1))

ParseMembersKey(s, acc, k) ==
  IF ~k.ok THEN ParseFail
  ELSE ParseMembersColon(s, acc, k.val.s, SkipWs(s, k.pos))

ParseMembersAt(s, i, acc) ==
  IF i > Len(s) \/ s[i] # "\"" THEN ParseFail
  ELSE ParseMembersKey(s, acc, ParseChars(s, i + 1, <<>>))

\* "key" : value (, "key" : value)* } with the members before i in acc
ParseMembers(s, i, acc) == ParseMembersAt(s, SkipWs(s, i), acc)

JSONResult(text, r) ==
  IF r.ok /\ SkipWs(text, r.pos) > Len(text)
  THEN [ok |-> TRUE, val |-> r.val]
  ELSE [ok |-> FALSE, val |-> Undefined]

\* JSON.parse(text): [ok |-> FALSE] stands for the SyntaxError it throws.
\* The grammar is JSON without signs, fractions and exponents, and of the
\* escapes those of ParseEscape.
JSONParse(text) == JSONResult(text, ParseValue(text, 1))

(***************************************************************************)
(* Type guards of source/types/stream.ts                                   *)
(***************************************************************************)
STREAM_DONE_MARKER == <<"[", "D", "O", "N", "E", "]">>
MaxThreadIdLen == 256

KeyError == <<"e", "r", "r", "o", "r">>
KeyMessage == <<"m", "e", "s", "s", "a", "g", "e">>
KeyThreadId == <<"t", "h", "r", "e", "a", "d", "_", "i", "d">>
KeyDistributed == <<"d", "i", "s", "t", "r", "i", "b", "u", "t", "e", "d">>
StrDone == <<"d", "o", "n", "e">>

\* typeof data === 'object' && data !== null (arrays are objects)
IsObjectLike(v) == v.t \in {"obj", "arr"}

\* obj[key] for a string key that is not an array index
Get(v, key) ==
  IF v.t = "obj" /\ key \in DOMAIN v.o THEN v.o[key] ELSE Undefined

\* isDistributedResponse without the upper limit on the length
isDistributedResponse_NoUpperLimit(data) ==
  IF ~IsObjectLike(data) THEN FALSE
  ELSE IF Get(data, KeyDistributed) # JBool(TRUE) THEN FALSE
  ELSE IF Get(data, KeyThreadId).t # "str" THEN FALSE
  ELSE Len(Get(data, KeyThreadId).s) # 0

isDistributedResponse(data) ==
  IF ~IsObjectLike(data) THEN FALSE
  ELSE IF Get(data, KeyDistributed) # JBool(TRUE) THEN FALSE
  ELSE IF Get(data, KeyThreadId).t # "str" THEN FALSE
  ELSE IF Len(Get(data, KeyThreadId).s) = 0
          \/ Len(Get(data, KeyThreadId).s) > MaxThreadIdLen
       THEN FALSE
  ELSE TRUE

isDistributedError(data) ==
  IF ~IsObjectLike(data) THEN FALSE
  ELSE Get(data, KeyError).t = "str"

(***************************************************************************)
(* Event decoding of StreamService                                         *)
(***************************************************************************)
Event(type, payload) == [type |-> type, payload |-> payload]

\* a[i] of a JavaScript array: undefined past the end
At(a, i) == IF i <= Len(a) THEN a[i] ELSE Undefined

\* an exception on its way out of a function
Thrown == [t |-> "throw"]

\* `const [type, payload] = parsed` iterates an array or the characters
\* of a string and throws a TypeError for every other value; r.ok = FALSE
\* is the SyntaxError of JSON.parse.
Destructure(r) ==
  IF ~r.ok THEN Thrown
  ELSE IF r.val.t = "arr"
       THEN Event(At(r.val.a, 1), At(r.val.a, 2))
  ELSE IF r.val.t = "str"
       THEN Event(IF Len(r.val.s) >= 1 THEN JStr(<<r.val.s[1]>>)
                  ELSE Undefined,
                  IF Len(r.val.s) >= 2 THEN JStr(<<r.val.s[2]>>)
                  ELSE Undefined)
  ELSE Thrown

\* try { ... } catch { return undefined }
Catch(v) == IF v = Thrown THEN Undefined ELSE v

\* parseEvent without its try/catch
parseEvent_NoCatch(data) == Destructure(JSONParse(data))

parseEvent(data) == Catch(Destructure(JSONParse(data)))

\* parseDistributedEvent keeping only the tags of the StreamEvent union
DistributedEventOf_KnownTags(r) ==
  IF ~r.ok THEN Thrown
  ELSE IF isDistributedError(r.val)
       THEN Event(JStr(KeyError),
                  JObj([k \in {KeyMessage} |-> Get(r.val, KeyError)]))
  ELSE IF r.val.t = "arr" /\ Len(r.val.a) >= 2
          /\ r.val.a[1] \in {JStr(<<"m", "e", "s", "s", "a", "g", "e", "s">>), JStr(<<"v", "a", "l", "u", "e", "s">>),
                             JStr(<<"e", "r", "r", "o", "r">>), JStr(<<"m", "e", "t", "a", "d", "a", "t", "a">>),
                             JStr(StrDone)}
       THEN Event(r.val.a[1], r.val.a[2])
  ELSE Undefined

DistributedEventOf(r) ==
  IF ~r.ok THEN Thrown
  ELSE IF isDistributedError(r.val)
       THEN Event(JStr(KeyError),
                  JObj([k \in {KeyMessage} |-> Get(r.val, KeyError)]))
  ELSE IF r.val.t = "arr" /\ Len(r.val.a) >= 2
       THEN Event(r.val.a[1], r.val.a[2])
  ELSE Undefined

parseDistributedEvent(data) == Catch(DistributedEventOf(JSONParse(data)))

DataPrefix == <<"d", "a", "t", "a", ":", " ">>

Extracted(parsed, remaining) ==
  [parsed |-> parsed, remaining |-> remaining, threw |-> FALSE]
\* an exception of the decoder leaves the extraction
ExtractThrew == [parsed |-> <<>>, remaining |-> <<>>, threw |-> TRUE]

RECURSIVE extractEventsLoop(_, _, _, _)

\* `if (event) parsed.push(event)` and the next round of the loop
extractEventsPush(lines, i, endsNl, parsed, event) ==
  IF event = Thrown THEN ExtractThrew
  ELSE extractEventsLoop(lines, i + 1, endsNl,
         IF event # Undefined THEN Append(parsed, event) ELSE parsed)

\* the for loop of extractEvents from the line i on
extractEventsLoop(lines, i, endsNl, parsed) ==
  IF i > Len(lines) THEN Extracted(parsed, <<>>)
  ELSE IF i = Len(lines) /\ ~endsNl THEN Extracted(parsed, lines[i])
  ELSE IF Trim(lines[i]) = <<>>
       THEN extractEventsLoop(lines, i + 1, endsNl, parsed)
  ELSE IF StartsWith(lines[i], DataPrefix)
       THEN extractEventsPush(lines, i, endsNl, parsed,
                              parseEvent(Slice(lines[i], 6)))
  ELSE extractEventsLoop(lines, i + 1, endsNl, parsed)

\* extractEvents forgetting the unterminated tail of the buffer
extractEvents_DropRemainder(buffer) ==
  [extractEventsLoop(Split(buffer), 1, EndsWith(buffer, <<"\n">>), <<>>)
     EXCEPT !.remaining = <<>>]

extractEvents(buffer) ==
  extractEventsLoop(Split(buffer), 1, EndsWith(buffer, <<"\n">>), <<>>)

RECURSIVE extractDistributedEventsLoop(_, _, _, _)

extractDistributedEventsPush(lines, i, endsNl, parsed, event) ==
  IF event = Thrown THEN ExtractThrew
  ELSE extractDistributedEventsLoop(lines, i + 1, endsNl,
         IF event # Undefined THEN Append(parsed, event) ELSE parsed)

\* the for loop of extractDistributedEvents from the line i on
extractDistributedEventsLoop(lines, i, endsNl, parsed) ==
  IF i > Len(lines) THEN Extracted(parsed, <<>>)
  ELSE IF i = Len(lines) /\ ~endsNl THEN Extracted(parsed, lines[i])
  ELSE IF Trim(lines[i]) = <<>>
       THEN extractDistributedEventsLoop(lines, i + 1, endsNl, parsed)
  ELSE IF StartsWith(lines[i], <<":">>)
       THEN extractDistributedEventsLoop(lines, i + 1, endsNl, parsed)
  ELSE IF StartsWith(lines[i], DataPrefix)
       THEN IF Slice(lines[i], 6) = STREAM_DONE_MARKER
            THEN extractDistributedEventsLoop(lines, i + 1, endsNl,
                   Append(parsed, Event(JStr(StrDone), Undefined)))
            ELSE extractDistributedEventsPush(lines, i, endsNl, parsed,
                   parseDistributedEvent(Slice(lines[i], 6)))
  ELSE extractDistributedEventsLoop(lines, i + 1, endsNl, parsed)

extractDistributedEvents(buffer) ==
  extractDistributedEventsLoop(Split(buffer), 1,
                               EndsWith(buffer, <<"\n">>), <<>>)

\* event.type === 'done'
IsDone(event) == event.type = JStr(StrDone)

(***************************************************************************)
(* Inputs: what the server answers                                         *)
(***************************************************************************)
NL == <<"\n">>

\* bodies of an HTTP 202 answer to the initial POST
HandshakeOk == <<"{", "\"", "t", "h", "r", "e", "a", "d", "_", "i", "d", "\"", ":", "\"", "t", "\"", ",", "\"", "d", "i", "s", "t", "r", "i", "b", "u", "t", "e", "d", "\"", ":", "t", "r", "u", "e", "}">>
HandshakeNotJson == <<"n", "o", "t", " ", "j", "s", "o", "n">>
HandshakeEmptyId == <<"{", "\"", "t", "h", "r", "e", "a", "d", "_", "i", "d", "\"", ":", "\"", "\"", ",", "\"", "d", "i", "s", "t", "r", "i", "b", "u", "t", "e", "d", "\"", ":", "t", "r", "u", "e", "}">>
HandshakeNoFlag == <<"{", "\"", "t", "h", "r", "e", "a", "d", "_", "i", "d", "\"", ":", "\"", "t", "\"", "}">>
HandshakeFlagFalse == <<"{", "\"", "t", "h", "r", "e", "a", "d", "_", "i", "d", "\"", ":", "\"", "t", "\"", ",", "\"", "d", "i", "s", "t", "r", "i", "b", "u", "t", "e", "d", "\"", ":", "f", "a", "l", "s", "e", "}">>
HandshakeNumId == <<"{", "\"", "t", "h", "r", "e", "a", "d", "_", "i", "d", "\"", ":", "1", ",", "\"", "d", "i", "s", "t", "r", "i", "b", "u", "t", "e", "d", "\"", ":", "t", "r", "u", "e", "}">>
HandshakeNull == <<"n", "u", "l", "l">>
HandshakeArray == <<"[", "1", "]">>

HandshakeBodies ==
  {HandshakeOk, HandshakeNotJson, HandshakeEmptyId, HandshakeNoFlag,
   HandshakeFlagFalse, HandshakeNumId, HandshakeNull, HandshakeArray}

\* bodies of a failure answer
ErrorBodyDetail == <<"{", "\"", "d", "e", "t", "a", "i", "l", "\"", ":", "\"", "b", "a", "d", " ", "k", "e", "y", "\"", "}">>
ErrorBodyError == <<"{", "\"", "e", "r", "r", "o", "r", "\"", ":", "\"", "n", "o", "\"", "}">>
ErrorBodyBoth == <<"{", "\"", "d", "e", "t", "a", "i", "l", "\"", ":", "n", "u", "l", "l", ",", "\"", "e", "r", "r", "o", "r", "\"", ":", "\"", "n", "o", "\"", "}">>
ErrorBodyOther == <<"{", "\"", "x", "\"", ":", "1", "}">>
ErrorBodyHtml == <<"<", "h", "t", "m", "l", ">">>
ErrorBodyNull == <<"n", "u", "l", "l">>

ErrorBodyTwo == <<"{", "\"", "d", "e", "t", "a", "i", "l", "\"", ":", "\"", "b", "a", "d", " ", "k", "e", "y", "\"", ",", "\"", "e", "r", "r", "o", "r", "\"", ":", "\"", "n", "o", "\"", "}">>

ErrorBodies ==
  {ErrorBodyDetail, ErrorBodyError, ErrorBodyBoth, ErrorBodyTwo,
   ErrorBodyOther, ErrorBodyHtml, ErrorBodyNull}

\* status codes of the answer to the POST and to the GET
PostStatuses == {200, 202, 204, 401, 429, 500}
GetStatuses == {200, 204, 404, 500}
\* Response.ok
Ok(status) == status >= 200 /\ status <= 299
\* the statuses whose Response has a null body
NullBody(status) == status \in {204, 205, 304}

\* lines of an event stream
LineMsg == <<"d", "a", "t", "a", ":", " ", "[", "\"", "m", "\"", ",", "1", "]">>
LineVal == <<"d", "a", "t", "a", ":", " ", "[", "\"", "v", "\"", ",", "2", "]">>
LineDone == <<"d", "a", "t", "a", ":", " ", "[", "D", "O", "N", "E", "]">>
LineDoneEvent == <<"d", "a", "t", "a", ":", " ", "[", "\"", "d", "o", "n", "e", "\"", ",", "0", "]">>
LineBad == <<"d", "a", "t", "a", ":", " ", "{", "o", "o", "p", "s">>
LineErr == <<"d", "a", "t", "a", ":", " ", "{", "\"", "e", "r", "r", "o", "r", "\"", ":", "\"", "x", "\"", "}">>
LineComment == <<":", " ", "p", "i", "n", "g">>
LineAccent == <<"d", "a", "t", "a", ":", " ", "[", "\"", "C3", "A9", "\"", ",", "3", "]">>
LineString == <<"d", "a", "t", "a", ":", " ", "\"", "a", "b", "\"">>
LineObject == <<"d", "a", "t", "a", ":", " ", "{", "\"", "a", "\"", ":", "1", "}">>
LineOne == <<"d", "a", "t", "a", ":", " ", "[", "7", "]">>
LineBlank == <<" ">>
LineOther == <<"e", "v", "e", "n", "t", ":", " ", "x">>

\* the event streams a server sends in the session specification
Streams ==
  {<<>>,
   LineMsg \o NL,
   LineMsg \o NL \o LineVal,
   LineMsg \o NL \o LineDone \o NL \o LineVal \o NL,
   LineMsg \o NL \o LineVal \o NL \o LineMsg \o NL,
   LineDoneEvent \o NL \o LineMsg \o NL}

\* lines of the event stream of a chat run
LineChunk == <<"d", "a", "t", "a", ":", " ", "[", "\"", "m", "e", "s", "s", "a", "g", "e", "s", "\"", ",", "[", "{", "\"", "c", "o", "n", "t", "e", "n", "t", "\"", ":", "\"", "h", "i", "\"", "}", "]", "]">>
LineValuesA == <<"d", "a", "t", "a", ":", " ", "[", "\"", "v", "a", "l", "u", "e", "s", "\"", ",", "{", "\"", "a", "\"", ":", "1", "}", "]">>
LineValuesB == <<"d", "a", "t", "a", ":", " ", "[", "\"", "v", "a", "l", "u", "e", "s", "\"", ",", "{", "\"", "b", "\"", ":", "2", "}", "]">>
LineError == <<"d", "a", "t", "a", ":", " ", "[", "\"", "e", "r", "r", "o", "r", "\"", ",", "{", "\"", "m", "e", "s", "s", "a", "g", "e", "\"", ":", "\"", "x", "\"", "}", "]">>
LineMetadata == <<"d", "a", "t", "a", ":", " ", "[", "\"", "m", "e", "t", "a", "d", "a", "t", "a", "\"", ",", "1", "]">>
LineMessagesNull == <<"d", "a", "t", "a", ":", " ", "[", "\"", "m", "e", "s", "s", "a", "g", "e", "s", "\"", ",", "n", "u", "l", "l", "]">>
LineValuesNull == <<"d", "a", "t", "a", ":", " ", "[", "\"", "v", "a", "l", "u", "e", "s", "\"", ",", "n", "u", "l", "l", "]">>

JsonLines ==
  {LineChunk, LineValuesA, LineValuesB, LineError, LineMetadata, LineBad,
   LineMessagesNull, LineValuesNull, LineDone}

\* the event streams a server sends to a run of the JSON mode: at most two
\* lines
JsonStreams ==
  {<<>>}
  \cup {l \o NL : l \in JsonLines}
  \cup {l1 \o NL \o l2 \o NL : l1, l2 \in JsonLines}


(***************************************************************************)
(* State of one connect() call and of the handle it returns                *)
(***************************************************************************)
VARIABLES
  pc,                  \* position of connect(): "start", "awaitPost",
                       \* "readErrorBody", "readHandshake", "awaitGet",
                       \* "readGetError", "handle", "rejected"
  requests,            \* the requests issued so far, in order
  open,                \* the requests whose exchange is not over
  status,              \* the status codes of the answers received
  rawText,             \* the body of the 202 answer, once it is read
  errorText,           \* the body of a failure answer, once parseError
                       \* has read it
  aborted,             \* controller.signal.aborted
  timeoutId,           \* timer of connect(): -1 or the ticks left
  connectionTimeoutId, \* timer of connectToThreadStream
  idleTimeoutId,       \* timer of parseDistributedEventStream
  fired,               \* the timers whose callback has run, each with
                       \* pc and gen at that moment
  error,               \* what connect() rejected with or the events threw
  mode,                \* "none", "sync" or "distributed"
  stream,              \* the bytes the server sends as the event stream
  pos,                 \* how many of them have arrived
  queue,               \* chunks that arrived and were not read yet
  bodyState,           \* "none", "readable", "closing", "closed", "errored"
  bodyErr,             \* why the body is errored: "abort", "idle", "network"
  gen,                 \* the generator: "none", "notStarted", "reading",
                       \* "yielding", "ended", "threw"
  buffer,              \* its local `buffer`
  pending,             \* the incomplete byte sequence its decoder keeps
  parsed,              \* the events of result.parsed not yet looked at
  flushing,            \* it is in the loop over the remaining buffer
  yielded,             \* the events handed to the consumer, in order
  readers,             \* reader locks held on the body
  acquired,            \* calls of body.getReader()
  released,            \* calls of reader.releaseLock()
  endReason,           \* how the event sequence ended
  abortCalls,          \* calls of handle.abort()
  abortAt,             \* where the generator was at the first of them
  sinceChunk,          \* ticks since the server delivered the last chunk,
                       \* counted up to the idle window
  run,                 \* position of runJsonMode: "none", "start",
                       \* "connecting", "iterating", "finished"
  records,             \* the records writeJson has written, in order
  processExitCode,     \* process.exitCode, -1 while it is not set
  finalResponse,       \* finalResponse of runJsonMode
  fn,                  \* the function a call of which is observed
  arg,                 \* its argument
  ret,                 \* its result, once it has returned
  hook,                \* position of the effect of useStream: "none",
                       \* "idle", "connecting", "iterating", "finished"
  streamStatus,        \* the state `status` of useStream
  hookResult,          \* its states finalResponse, error and errorCode
  cancelled,           \* `cancelled` of the effect
  handleReference,     \* handleReference.current is set
  effects,             \* the runs of the effect of useStream, one after
                       \* the other, each with its position, its
                       \* `cancelled` and whether its handle was aborted
  reference,           \* handleReference.current: 0 or the run whose
                       \* handle it holds
  userAborts,          \* calls of the callback abort of useStream
  consentState,        \* the state of useBashConsent
  called,              \* the callback of useBashConsent called last
  isBashEnabled,       \* the property isBashEnabled of ChatCommandTui
  isAutoApprove,       \* its property isAutoApprove
  tuiStatus,           \* `status` of useStream in ChatCommandTui, "none"
                       \* while it is not mounted
  toolCalls,           \* the tool calls of finalResponse
  threadKnown,         \* streamMetadata.thread_id is set
  responses,           \* final responses received so far
  pendingBashCall,     \* pendingBashCall, with id 0 for undefined
  processedToolCalls,  \* processedToolCalls
  running,             \* the calls of executeBash that have not resolved
  asked,               \* calls of requestConsent per tool call
  executed,            \* calls of executeBash per tool call
  answers,             \* the tool results sent as continuation requests
  lastKey,             \* the key pressed last
  exitTimer,           \* "none", "scheduled" or "exited"
  bashCommand,         \* the command executeBash was called with
  child,               \* the child process: "none", "running", "exited"
                       \* (ended, its pipes still open), "closed", "failed"
  childKilled,         \* child.killed
  signals,             \* the signals sent to the process, in order
  timeoutTimer,        \* the timer of the timeout: "none", "armed",
                       \* "fired" or "cleared"
  killTimer,           \* the timer started by the timeout: "none",
                       \* "armed" or "fired"
  timedOut,            \* timedOut of executeBash
  resolves,            \* calls of resolve or returns of executeBash
  bashResult,          \* what executeBash resolved with first
  written,             \* the bytes the process wrote to stdout and to stderr
  captured,            \* the bytes kept of each, by their position in
                       \* what was written
  sizes,               \* stdoutSize and stderrSize
  truncated,           \* truncated of executeBash
  dropped,             \* some byte of the output was not kept
  chat,                \* position of streamChat: "none", "fetching",
                       \* "reading", "returned"
  chatBody,            \* the chunks of the response body that have not arrived
  chatBuffer,          \* `buffer` of processSseStream
  accumulatedContent,  \* accumulatedContent.value
  callbacks,           \* the callbacks streamChat has invoked, in order
  step,                \* `step` of InteractiveChat
  sent                 \* the messages sent in the interactive chat

connVars == <<pc, requests, open, status, rawText, errorText, error, mode>>
timerVars == <<timeoutId, connectionTimeoutId, idleTimeoutId, fired>>
bodyVars == <<stream, pos, queue, bodyState, bodyErr>>
genVars == <<gen, buffer, pending, parsed, flushing, yielded, readers,
             acquired, released, endReason>>
runVars == <<run, records, processExitCode, finalResponse>>
callVars == <<fn, arg, ret>>
hookVars == <<hook, streamStatus, hookResult, cancelled, handleReference>>
effectVars == <<effects, reference, userAborts>>
consentVars == <<consentState, called>>
tuiVars == <<isBashEnabled, isAutoApprove, tuiStatus, toolCalls,
             threadKnown, responses, pendingBashCall, processedToolCalls,
             running, asked, executed, answers, lastKey, exitTimer>>
bashVars == <<bashCommand, child, childKilled, signals, timeoutTimer,
              killTimer, timedOut, resolves, bashResult, written, captured,
              sizes, truncated, dropped>>
chatVars == <<chat, chatBody, chatBuffer, accumulatedContent, callbacks,
              step, sent>>
toolVars == <<effectVars, consentVars, tuiVars, bashVars, chatVars>>
vars == <<connVars, timerVars, bodyVars, genVars, aborted, abortCalls,
          abortAt, sinceChunk, runVars, callVars, hookVars, toolVars>>

\* the event streams the server can answer with
ServedStreams ==
  IF run = "none" /\ hook = "none" THEN Streams ELSE JsonStreams


Last(seq) == seq[Len(seq)]

NoError == [name |-> "none", statusCode |-> -1, phase |-> "none",
            message |-> Undefined]
Err(name, statusCode, phase, message) ==
  [name |-> name, statusCode |-> statusCode, phase |-> phase,
   message |-> message]

\* the DOMException named AbortError that fetch and the body reject with
MsgAborted == <<"T", "h", "i", "s", " ", "o", "p", "e", "r", "a", "t", "i", "o", "n", " ", "w", "a", "s", " ", "a", "b", "o", "r", "t", "e", "d">>
AbortError == Err("AbortError", -1, "none", JStr(MsgAborted))
\* the TypeError fetch rejects with on a network failure
MsgFetchFailed == <<"f", "e", "t", "c", "h", " ", "f", "a", "i", "l", "e", "d">>
NetworkError == Err("TypeError", -1, "none", JStr(MsgFetchFailed))
\* the TypeError the body rejects with when the connection breaks
MsgTerminated == <<"t", "e", "r", "m", "i", "n", "a", "t", "e", "d">>
BodyError == Err("TypeError", -1, "none", JStr(MsgTerminated))

\* the text of a body: ok = FALSE when there is none
NoText == [ok |-> FALSE, text |-> <<>>]
Text(t) == [ok |-> TRUE, text |-> t]

\* no JSON-mode run is under way
NoRun ==
  /\ run = "none"
  /\ records = <<>>
  /\ processExitCode = -1
  /\ finalResponse = Undefined

\* the states of useStream before the hook is used
NoResult == [finalResponse |-> Undefined, error |-> Undefined,
             errorCode |-> -1]
NoHook ==
  /\ hook = "none"
  /\ streamStatus = "idle"
  /\ hookResult = NoResult
  /\ cancelled = FALSE
  /\ handleReference = FALSE

\* useStream has not been rendered
NoEffects ==
  /\ effects = <<>>
  /\ reference = 0
  /\ userAborts = 0

\* useBashConsent before any request
NoConsent ==
  /\ consentState = [type |-> "idle"]
  /\ called = "none"

\* ChatCommandTui is not mounted
NoTui ==
  /\ isBashEnabled = FALSE
  /\ isAutoApprove = FALSE
  /\ tuiStatus = "none"
  /\ toolCalls = <<>>
  /\ threadKnown = FALSE
  /\ responses = 0
  /\ pendingBashCall = [id |-> 0, command |-> <<>>]
  /\ processedToolCalls = {}
  /\ running = {}
  /\ asked = [i \in {1, 2} |-> 0]
  /\ executed = [i \in {1, 2} |-> 0]
  /\ answers = {}
  /\ lastKey = "none"
  /\ exitTimer = "none"

\* executeBash has not been called
NoBash ==
  /\ bashCommand = <<>>
  /\ child = "none"
  /\ childKilled = FALSE
  /\ signals = <<>>
  /\ timeoutTimer = "none"
  /\ killTimer = "none"
  /\ timedOut = FALSE
  /\ resolves = 0
  /\ bashResult = [exitCode |-> -1]
  /\ written = [stdout |-> 0, stderr |-> 0]
  /\ captured = [stdout |-> <<>>, stderr |-> <<>>]
  /\ sizes = [stdout |-> 0, stderr |-> 0]
  /\ truncated = FALSE
  /\ dropped = FALSE

\* streamChat has not been called
NoChat ==
  /\ chat = "none"
  /\ chatBody = <<>>
  /\ chatBuffer = <<>>
  /\ accumulatedContent = <<>>
  /\ callbacks = <<>>
  /\ step = "input"
  /\ sent = 0

\* nothing of the terminal interface is in use
NoTools ==
  /\ NoChat
  /\ NoBash
  /\ NoTui
  /\ NoConsent
  /\ NoEffects

\* no function call is observed
NoCall ==
  /\ fn = "none"
  /\ arg = Undefined
  /\ ret = Undefined

\* the session before connect() is called
Constructed ==
  /\ pc = "start"
  /\ requests = <<>>
  /\ open = {}
  /\ status = <<>>
  /\ rawText = NoText
  /\ errorText = NoText
  /\ aborted = FALSE
  /\ timeoutId = -1
  /\ connectionTimeoutId = -1
  /\ idleTimeoutId = -1
  /\ fired = {}
  /\ error = NoError
  /\ mode = "none"
  /\ stream = <<>>
  /\ pos = 0
  /\ queue = <<>>
  /\ bodyState = "none"
  /\ bodyErr = "none"
  /\ gen = "none"
  /\ buffer = <<>>
  /\ pending = <<>>
  /\ parsed = <<>>
  /\ flushing = FALSE
  /\ yielded = <<>>
  /\ readers = 0
  /\ acquired = 0
  /\ released = 0
  /\ endReason = "none"
  /\ abortCalls = 0
  /\ abortAt = "none"
  /\ sinceChunk = streamIdleTimeoutMs

Init ==
  /\ Constructed
  /\ NoRun
  /\ NoCall
  /\ NoHook
  /\ NoTools

(***************************************************************************)
(* connect(): the initial POST                                             *)
(***************************************************************************)
\* String(n) for a status code
RECURSIVE NumToStr(_)
DigitChar(d) ==
  CASE d = 0 -> "0" [] d = 1 -> "1" [] d = 2 -> "2" [] d = 3 -> "3"
    [] d = 4 -> "4" [] d = 5 -> "5" [] d = 6 -> "6" [] d = 7 -> "7"
    [] d = 8 -> "8" [] d = 9 -> "9"
NumToStr(n) ==
  IF n < 10 THEN <<DigitChar(n)>>
  ELSE Append(NumToStr(n \div 10), DigitChar(n % 10))

HttpMessage(st) == JStr(<<"H", "T", "T", "P", " ">> \o NumToStr(st))

KeyDetail == <<"d", "e", "t", "a", "i", "l">>
Nullish(v) == v \in {Undefined, JNull}

\* parseError looking at `error` before `detail`
ErrorMessageOf_ErrorFirst(st, r) ==
  IF ~r.ok \/ r.val = JNull THEN HttpMessage(st)
  ELSE IF ~Nullish(Get(r.val, KeyError)) THEN Get(r.val, KeyError)
  ELSE IF ~Nullish(Get(r.val, KeyDetail)) THEN Get(r.val, KeyDetail)
  ELSE HttpMessage(st)

\* parseError: body is [ok, text], ok = FALSE when response.text() rejects.
\* A property of null throws a TypeError, caught like the SyntaxError.
ErrorMessageOf(st, r) ==
  IF ~r.ok \/ r.val = JNull THEN HttpMessage(st)
  ELSE IF ~Nullish(Get(r.val, KeyDetail)) THEN Get(r.val, KeyDetail)
  ELSE IF ~Nullish(Get(r.val, KeyError)) THEN Get(r.val, KeyError)
  ELSE HttpMessage(st)

parseError(st, body) ==
  IF ~body.ok THEN HttpMessage(st)
  ELSE ErrorMessageOf(st, JSONParse(body.text))

\* connect() up to `await fetch(...)` of fetchStream
Connect ==
  /\ pc = "start"
  /\ pc' = "awaitPost"
  /\ timeoutId' = connectionTimeoutMs
  /\ requests' = Append(requests, "POST")
  /\ open' = open \cup {"POST"}
  /\ UNCHANGED <<status, rawText, errorText, error, mode, connectionTimeoutId, idleTimeoutId,
                 fired, bodyVars, genVars, aborted, abortCalls, abortAt, sinceChunk>>

\* connect() returns a handle: the generator object exists, its body has
\* not started
ReturnHandle(m, s) ==
  /\ pc' = "handle"
  /\ mode' = m
  /\ stream' = s
  /\ pos' = 0
  /\ queue' = <<>>
  /\ bodyState' = "readable"
  /\ bodyErr' = "none"
  /\ gen' = "notStarted"

\* connect() rejects; the request that was in flight is over
Reject(e) ==
  /\ pc' = "rejected"
  /\ error' = e
  /\ open' = {}

MsgNoBody == <<"N", "o", " ", "r", "e", "s", "p", "o", "n", "s", "e", " ", "b", "o", "d", "y">>

\* the headers of the answer to the POST arrive
PostHeaders ==
  /\ pc = "awaitPost"
  /\ \E st \in PostStatuses, s \in ServedStreams :
       /\ status' = Append(status, st)
       /\ IF ~Ok(st) /\ st # 202
          THEN \* fetchStream awaits parseError; timeoutId stays armed
               /\ pc' = "readErrorBody"
               /\ UNCHANGED <<timeoutId, error, mode, open, bodyVars, gen>>
          ELSE IF st = 202
          THEN \* clearTimeout; handleDistributedMode awaits text()
               /\ pc' = "readHandshake"
               /\ timeoutId' = -1
               /\ UNCHANGED <<error, mode, open, bodyVars, gen>>
          ELSE IF NullBody(st)
          THEN /\ timeoutId' = -1
               /\ Reject(Err("StreamConnectionError", 0, "none",
                             JStr(MsgNoBody)))
               /\ UNCHANGED <<mode, bodyVars, gen>>
          ELSE /\ timeoutId' = -1
               /\ ReturnHandle("sync", s)
               /\ UNCHANGED <<error, open>>
  /\ UNCHANGED <<requests, rawText, errorText, connectionTimeoutId, idleTimeoutId,
                 fired, buffer, pending, parsed, flushing, yielded, readers,
                 acquired, released, endReason, aborted, abortCalls, abortAt, sinceChunk>>

\* fetch of the POST rejects with a network failure
PostFails ==
  /\ pc = "awaitPost"
  /\ timeoutId' = -1
  /\ Reject(NetworkError)
  /\ UNCHANGED <<requests, status, rawText, errorText, mode, connectionTimeoutId,
                 idleTimeoutId, fired, bodyVars, genVars, aborted,
                 abortCalls, abortAt, sinceChunk>>

\* the body of a failure answer to the POST is read, or reading it fails
PostErrorBody ==
  /\ pc = "readErrorBody"
  /\ \E body \in [ok : {TRUE}, text : ErrorBodies]
                 \cup {NoText} :
       /\ errorText' = body
       /\ Reject(Err("StreamConnectionError", Last(status), "none",
                     parseError(Last(status), body)))
  /\ timeoutId' = -1
  /\ UNCHANGED <<requests, status, rawText, mode, connectionTimeoutId,
                 idleTimeoutId, fired, bodyVars, genVars, aborted,
                 abortCalls, abortAt, sinceChunk>>

\* the callback of the timer of connect(): controller.abort()
ConnectTimeout ==
  /\ timeoutId = 0
  /\ timeoutId' = -1
  /\ fired' = fired \cup {<<"timeoutId", pc, gen>>}
  /\ aborted' = TRUE
  /\ IF pc = "awaitPost"
     THEN Reject(AbortError)
     ELSE \* pc = "readErrorBody": text() rejects inside parseError
          Reject(Err("StreamConnectionError", Last(status), "none",
                     parseError(Last(status), NoText)))
  /\ UNCHANGED <<requests, status, rawText, errorText, mode, connectionTimeoutId,
                 idleTimeoutId, bodyVars, genVars, abortCalls, abortAt, sinceChunk>>

(***************************************************************************)
(* classifyError of source/lib/output/error-handler.ts                     *)
(***************************************************************************)
UpperCase == <<"A", "B", "C", "D", "E", "F", "G", "H", "I", "J", "K", "L",
               "M", "N", "O", "P", "Q", "R", "S", "T", "U", "V", "W", "X",
               "Y", "Z">>
LowerCase == <<"a", "b", "c", "d", "e", "f", "g", "h", "i", "j", "k", "l",
               "m", "n", "o", "p", "q", "r", "s", "t", "u", "v", "w", "x",
               "y", "z">>
LowerChar(c) ==
  IF \E i \in 1 .. 26 : UpperCase[i] = c
  THEN LowerCase[CHOOSE i \in 1 .. 26 : UpperCase[i] = c] ELSE c
\* String.prototype.toLowerCase
ToLowerCase(str) == [i \in 1 .. Len(str) |-> LowerChar(str[i])]
\* String.prototype.includes
Includes(str, sub) ==
  \E i \in 1 .. (Len(str) - Len(sub) + 1) :
    SubSeq(str, i, i + Len(sub) - 1) = sub

exitCodes ==
  [success |-> 0, networkError |-> 1, authFailed |-> 2, rateLimited |-> 3,
   timeout |-> 4, serverError |-> 5]

Mapping(code, message, recoverable, exitCode) ==
  [code |-> code, message |-> message, recoverable |-> recoverable,
   exitCode |-> exitCode]

\* the character U+0060, which a TLA+ string cannot hold
Backquote == "U+0060"

MsgAuth == <<"A", "u", "t", "h", "e", "n", "t", "i", "c", "a", "t", "i", "o", "n", " ", "f", "a", "i", "l", "e", "d", ".", " ", "R", "u", "n", " ", Backquote, "r", "u", "s", "k", "a", " ", "a", "u", "t", "h", Backquote, " ", "t", "o", " ", "r", "e", "c", "o", "n", "f", "i", "g", "u", "r", "e", ".">>
MsgRate == <<"R", "a", "t", "e", " ", "l", "i", "m", "i", "t", " ", "e", "x", "c", "e", "e", "d", "e", "d", ".", " ", "P", "l", "e", "a", "s", "e", " ", "w", "a", "i", "t", " ", "b", "e", "f", "o", "r", "e", " ", "r", "e", "t", "r", "y", "i", "n", "g", ".">>
MsgNetwork == <<"U", "n", "a", "b", "l", "e", " ", "t", "o", " ", "c", "o", "n", "n", "e", "c", "t", " ", "t", "o", " ", "s", "e", "r", "v", "e", "r", ".", " ", "C", "h", "e", "c", "k", " ", "y", "o", "u", "r", " ", "n", "e", "t", "w", "o", "r", "k", " ", "a", "n", "d", " ", "h", "o", "s", "t", " ", "c", "o", "n", "f", "i", "g", "u", "r", "a", "t", "i", "o", "n", ".">>
MsgTimeout == <<"R", "e", "q", "u", "e", "s", "t", " ", "t", "i", "m", "e", "d", " ", "o", "u", "t", ".", " ", "T", "h", "e", " ", "s", "e", "r", "v", "e", "r", " ", "m", "a", "y", " ", "b", "e", " ", "o", "v", "e", "r", "l", "o", "a", "d", "e", "d", ".">>
MsgServerA == <<"S", "e", "r", "v", "e", "r", " ", "e", "r", "r", "o", "r", " ", "(", "H", "T", "T", "P", " ">>
MsgServerB == <<")", ".", " ", "P", "l", "e", "a", "s", "e", " ", "t", "r", "y", " ", "a", "g", "a", "i", "n", " ", "l", "a", "t", "e", "r", ".">>
MsgServerC == <<"S", "e", "r", "v", "e", "r", " ", "e", "r", "r", "o", "r", ":", " ">>
MsgUnknown == <<"U", "n", "k", "n", "o", "w", "n", " ", "e", "r", "r", "o", "r", " ", "o", "c", "c", "u", "r", "r", "e", "d">>

\* `error instanceof Error`: a thrown value that is no Error has the name
\* "none"
IsError(e) == e.name # "none"

\* the branches of classifyError that look at the lower-cased message
\* classifyError handing back a fixed text for an unknown Error
ClassifyMessage_MessageLost(e, m) ==
  IF Includes(m, <<"f", "e", "t", "c", "h", " ", "f", "a", "i", "l", "e", "d">>) \/ Includes(m, <<"e", "c", "o", "n", "n", "r", "e", "f", "u", "s", "e", "d">>)
     \/ Includes(m, <<"n", "e", "t", "w", "o", "r", "k">>) \/ Includes(m, <<"e", "n", "o", "t", "f", "o", "u", "n", "d">>)
  THEN Mapping("NETWORK_ERROR", MsgNetwork, FALSE, exitCodes.networkError)
  ELSE IF Includes(m, <<"4", "0", "1">>) \/ Includes(m, <<"u", "n", "a", "u", "t", "h", "o", "r", "i", "z", "e", "d">>)
  THEN Mapping("AUTH_FAILED", MsgAuth, FALSE, exitCodes.authFailed)
  ELSE IF Includes(m, <<"4", "2", "9">>) \/ Includes(m, <<"r", "a", "t", "e", " ", "l", "i", "m", "i", "t">>)
  THEN Mapping("RATE_LIMITED", MsgRate, TRUE, exitCodes.rateLimited)
  ELSE IF e.name = "AbortError" \/ Includes(m, <<"t", "i", "m", "e", "o", "u", "t">>)
          \/ Includes(m, <<"a", "b", "o", "r", "t", "e", "d">>)
  THEN Mapping("TIMEOUT", MsgTimeout, TRUE, exitCodes.timeout)
  ELSE IF Includes(m, <<"5", "0", "0">>) \/ Includes(m, <<"5", "0", "2">>)
          \/ Includes(m, <<"5", "0", "3">>)
  THEN Mapping("SERVER_ERROR", MsgServerC \o e.message.s, TRUE,
               exitCodes.serverError)
  ELSE Mapping("STREAM_INTERRUPTED", MsgUnknown, FALSE,
               exitCodes.networkError)

\* classifyError with the exit code of a network error for a timeout
ClassifyMessage_TimeoutExit(e, m) ==
  IF Includes(m, <<"f", "e", "t", "c", "h", " ", "f", "a", "i", "l", "e", "d">>) \/ Includes(m, <<"e", "c", "o", "n", "n", "r", "e", "f", "u", "s", "e", "d">>)
     \/ Includes(m, <<"n", "e", "t", "w", "o", "r", "k">>) \/ Includes(m, <<"e", "n", "o", "t", "f", "o", "u", "n", "d">>)
  THEN Mapping("NETWORK_ERROR", MsgNetwork, FALSE, exitCodes.networkError)
  ELSE IF Includes(m, <<"4", "0", "1">>) \/ Includes(m, <<"u", "n", "a", "u", "t", "h", "o", "r", "i", "z", "e", "d">>)
  THEN Mapping("AUTH_FAILED", MsgAuth, FALSE, exitCodes.authFailed)
  ELSE IF Includes(m, <<"4", "2", "9">>) \/ Includes(m, <<"r", "a", "t", "e", " ", "l", "i", "m", "i", "t">>)
  THEN Mapping("RATE_LIMITED", MsgRate, TRUE, exitCodes.rateLimited)
  ELSE IF e.name = "AbortError" \/ Includes(m, <<"t", "i", "m", "e", "o", "u", "t">>)
          \/ Includes(m, <<"a", "b", "o", "r", "t", "e", "d">>)
  THEN Mapping("TIMEOUT", MsgTimeout, TRUE, exitCodes.networkError)
  ELSE IF Includes(m, <<"5", "0", "0">>) \/ Includes(m, <<"5", "0", "2">>)
          \/ Includes(m, <<"5", "0", "3">>)
  THEN Mapping("SERVER_ERROR", MsgServerC \o e.message.s, TRUE,
               exitCodes.serverError)
  ELSE Mapping("STREAM_INTERRUPTED", e.message.s, FALSE,
               exitCodes.networkError)

ClassifyMessage(e, m) ==
  IF Includes(m, <<"f", "e", "t", "c", "h", " ", "f", "a", "i", "l", "e", "d">>) \/ Includes(m, <<"e", "c", "o", "n", "n", "r", "e", "f", "u", "s", "e", "d">>)
     \/ Includes(m, <<"n", "e", "t", "w", "o", "r", "k">>) \/ Includes(m, <<"e", "n", "o", "t", "f", "o", "u", "n", "d">>)
  THEN Mapping("NETWORK_ERROR", MsgNetwork, FALSE, exitCodes.networkError)
  ELSE IF Includes(m, <<"4", "0", "1">>) \/ Includes(m, <<"u", "n", "a", "u", "t", "h", "o", "r", "i", "z", "e", "d">>)
  THEN Mapping("AUTH_FAILED", MsgAuth, FALSE, exitCodes.authFailed)
  ELSE IF Includes(m, <<"4", "2", "9">>) \/ Includes(m, <<"r", "a", "t", "e", " ", "l", "i", "m", "i", "t">>)
  THEN Mapping("RATE_LIMITED", MsgRate, TRUE, exitCodes.rateLimited)
  ELSE IF e.name = "AbortError" \/ Includes(m, <<"t", "i", "m", "e", "o", "u", "t">>)
          \/ Includes(m, <<"a", "b", "o", "r", "t", "e", "d">>)
  THEN Mapping("TIMEOUT", MsgTimeout, TRUE, exitCodes.timeout)
  ELSE IF Includes(m, <<"5", "0", "0">>) \/ Includes(m, <<"5", "0", "2">>)
          \/ Includes(m, <<"5", "0", "3">>)
  THEN Mapping("SERVER_ERROR", MsgServerC \o e.message.s, TRUE,
               exitCodes.serverError)
  ELSE Mapping("STREAM_INTERRUPTED", e.message.s, FALSE,
               exitCodes.networkError)

\* statusCode = -1 stands for undefined
\* classifyError looking at the message of an Error before the status code
classifyError_MessageFirst(e, statusCode) ==
  IF IsError(e)
     /\ ClassifyMessage(e, ToLowerCase(e.message.s)).code
          # "STREAM_INTERRUPTED"
  THEN ClassifyMessage(e, ToLowerCase(e.message.s))
  ELSE IF statusCode # -1 /\ (statusCode = 401 \/ statusCode = 403)
  THEN Mapping("AUTH_FAILED", MsgAuth, FALSE, exitCodes.authFailed)
  ELSE IF statusCode # -1 /\ statusCode = 429
  THEN Mapping("RATE_LIMITED", MsgRate, TRUE, exitCodes.rateLimited)
  ELSE IF statusCode # -1 /\ statusCode >= 500
  THEN Mapping("SERVER_ERROR",
               MsgServerA \o NumToStr(statusCode) \o MsgServerB, TRUE,
               exitCodes.serverError)
  ELSE IF IsError(e) THEN ClassifyMessage(e, ToLowerCase(e.message.s))
  ELSE Mapping("STREAM_INTERRUPTED", MsgUnknown, FALSE,
               exitCodes.networkError)

classifyError(e, statusCode) ==
  IF statusCode # -1 /\ (statusCode = 401 \/ statusCode = 403)
  THEN Mapping("AUTH_FAILED", MsgAuth, FALSE, exitCodes.authFailed)
  ELSE IF statusCode # -1 /\ statusCode = 429
  THEN Mapping("RATE_LIMITED", MsgRate, TRUE, exitCodes.rateLimited)
  ELSE IF statusCode # -1 /\ statusCode >= 500
  THEN Mapping("SERVER_ERROR",
               MsgServerA \o NumToStr(statusCode) \o MsgServerB, TRUE,
               exitCodes.serverError)
  ELSE IF IsError(e) THEN ClassifyMessage(e, ToLowerCase(e.message.s))
  ELSE Mapping("STREAM_INTERRUPTED", MsgUnknown, FALSE,
               exitCodes.networkError)

\* the catch block of the JSON-mode chat run: the status code of a
\* StreamConnectionError, undefined for every other error
ClassifyCaught(e) ==
  classifyError(e, IF e.name = "StreamConnectionError" THEN e.statusCode
                   ELSE -1)

(***************************************************************************)
(* handleDistributedMode and connectToThreadStream                         *)
(***************************************************************************)
MsgInvalidJson == <<"I", "n", "v", "a", "l", "i", "d", " ", "J", "S", "O", "N", " ", "i", "n", " ", "d", "i", "s", "t", "r", "i", "b", "u", "t", "e", "d", " ", "r", "e", "s", "p", "o", "n", "s", "e">>
MsgInvalidShape == <<"I", "n", "v", "a", "l", "i", "d", " ", "d", "i", "s", "t", "r", "i", "b", "u", "t", "e", "d", " ", "r", "e", "s", "p", "o", "n", "s", "e", ":", " ", "m", "i", "s", "s", "i", "n", "g", " ", "o", "r", " ", "i", "n", "v", "a", "l", "i", "d", " ", "t", "h", "r", "e", "a", "d", "_", "i", "d">>
MsgNoStreamBody == <<"N", "o", " ", "r", "e", "s", "p", "o", "n", "s", "e", " ", "b", "o", "d", "y", " ", "f", "r", "o", "m", " ", "t", "h", "r", "e", "a", "d", " ", "s", "t", "r", "e", "a", "m">>
MsgFailedPrefix == <<"F", "a", "i", "l", "e", "d", " ", "t", "o", " ", "c", "o", "n", "n", "e", "c", "t", " ", "t", "o", " ", "t", "h", "r", "e", "a", "d", " ", "s", "t", "r", "e", "a", "m", ":", " ">>

Malformed(msg) == Err("MalformedDistributedResponse", -1, "none", JStr(msg))
HandshakeError(msg) ==
  Err("DistributedStreamError", -1, "handshake", JStr(msg))

\* what handleDistributedMode does with the text of the 202 body: the
\* error it throws, or NoError when it goes on to connectToThreadStream
\* handleDistributedMode without the isDistributedResponse check
ValidateHandshake_NoShapeCheck(r, isAborted) ==
  IF ~r.ok THEN Malformed(MsgInvalidJson)
  ELSE IF isAborted THEN AbortError
  ELSE NoError

ValidateHandshake(r, isAborted) ==
  IF ~r.ok THEN Malformed(MsgInvalidJson)
  ELSE IF ~isDistributedResponse(r.val) THEN Malformed(MsgInvalidShape)
  ELSE IF isAborted THEN AbortError
  ELSE NoError

handleDistributedMode(text, isAborted) ==
  ValidateHandshake(JSONParse(text), isAborted)

\* handleDistributedMode throws e, or calls connectToThreadStream, which
\* runs up to its `await fetch(...)`
\* handleDistributedMode connecting to the thread stream whatever the
\* validation found
AfterHandshake_AlwaysConnect(e) ==
  /\ pc' = "awaitGet"
  /\ connectionTimeoutId' = connectionTimeoutMs
  /\ requests' = Append(requests, "GET")
  /\ open' = {"GET"}
  /\ UNCHANGED error

AfterHandshake(e) ==
  IF e # NoError
  THEN /\ Reject(e)
       /\ UNCHANGED <<requests, connectionTimeoutId>>
  ELSE /\ pc' = "awaitGet"
       /\ connectionTimeoutId' = connectionTimeoutMs
       /\ requests' = Append(requests, "GET")
       /\ open' = {"GET"}
       /\ UNCHANGED error

\* the body of the 202 answer is read
HandshakeBody ==
  /\ pc = "readHandshake"
  /\ \E t \in HandshakeBodies :
       /\ rawText' = Text(t)
       /\ AfterHandshake(handleDistributedMode(t, aborted))
  /\ UNCHANGED <<status, errorText, mode, timeoutId, idleTimeoutId, fired,
                 bodyVars, genVars, aborted, abortCalls, abortAt, sinceChunk>>

\* initialResponse.text() rejects with a network failure
HandshakeFails ==
  /\ pc = "readHandshake"
  /\ Reject(NetworkError)
  /\ UNCHANGED <<requests, status, rawText, errorText, mode, timerVars, bodyVars, genVars,
                 aborted, abortCalls, abortAt, sinceChunk>>

\* the headers of the answer to the GET arrive
GetHeaders ==
  /\ pc = "awaitGet"
  /\ connectionTimeoutId' = -1
  /\ \E st \in GetStatuses, s \in ServedStreams :
       /\ status' = Append(status, st)
       /\ IF ~Ok(st)
          THEN /\ pc' = "readGetError"
               /\ UNCHANGED <<error, mode, open, bodyVars, gen>>
          ELSE IF NullBody(st)
          THEN /\ Reject(HandshakeError(MsgNoStreamBody))
               /\ UNCHANGED <<mode, bodyVars, gen>>
          ELSE /\ ReturnHandle("distributed", s)
               /\ UNCHANGED <<error, open>>
  /\ UNCHANGED <<requests, rawText, errorText, timeoutId, idleTimeoutId, fired, buffer,
                 pending, parsed, flushing, yielded, readers, acquired,
                 released, endReason, aborted, abortCalls, abortAt, sinceChunk>>

\* fetch of the GET rejects with a network failure
GetFails ==
  /\ pc = "awaitGet"
  /\ connectionTimeoutId' = -1
  /\ Reject(NetworkError)
  /\ UNCHANGED <<requests, status, rawText, errorText, mode, timeoutId, idleTimeoutId, fired,
                 bodyVars, genVars, aborted, abortCalls, abortAt, sinceChunk>>

\* the body of a failure answer to the GET is read, or reading it fails
GetErrorBody ==
  /\ pc = "readGetError"
  /\ \E body \in [ok : {TRUE}, text : ErrorBodies]
                 \cup {NoText} :
       /\ errorText' = body
       /\ Reject(HandshakeError(MsgFailedPrefix
                                \o parseError(Last(status), body).s))
  /\ UNCHANGED <<requests, status, rawText, mode, timerVars, bodyVars, genVars,
                 aborted, abortCalls, abortAt, sinceChunk>>

\* the callback of the timer of connectToThreadStream: controller.abort()
GetTimeout ==
  /\ connectionTimeoutId = 0
  /\ connectionTimeoutId' = -1
  /\ fired' = fired \cup {<<"connectionTimeoutId", pc, gen>>}
  /\ aborted' = TRUE
  /\ Reject(AbortError)
  /\ UNCHANGED <<requests, status, rawText, errorText, mode, timeoutId, idleTimeoutId,
                 bodyVars, genVars, abortCalls, abortAt, sinceChunk>>

(***************************************************************************)
(* The event sequence: parseEventStream and parseDistributedEventStream    *)
(***************************************************************************)
Extract(m, buf) ==
  IF m = "distributed" THEN extractDistributedEvents(buf)
  ELSE extractEvents(buf)

\* The `for (const event of result.parsed)` loops, from the event at the
\* head of list up to the next suspension: a yield, the next
\* reader.read(), or the end of the generator.
\* the loop over the extracted events without the check for done
GenAdvance_YieldDone(list, fl, m) ==
  IF list = <<>>
  THEN IF fl
       THEN [gen |-> "ended", parsed |-> <<>>, out |-> <<>>,
             reason |-> "eof"]
       ELSE [gen |-> "reading", parsed |-> <<>>, out |-> <<>>,
             reason |-> "none"]
  ELSE [gen |-> "yielding", parsed |-> Tail(list), out |-> <<Head(list)>>,
        reason |-> "none"]

GenAdvance(list, fl, m) ==
  IF list = <<>>
  THEN IF fl
       THEN [gen |-> "ended", parsed |-> <<>>, out |-> <<>>,
             reason |-> "eof"]
       ELSE [gen |-> "reading", parsed |-> <<>>, out |-> <<>>,
             reason |-> "none"]
  ELSE IF m = "distributed" /\ IsDone(Head(list))
       THEN [gen |-> "ended", parsed |-> <<>>, out |-> <<>>,
             reason |-> "done"]
  ELSE [gen |-> "yielding", parsed |-> Tail(list), out |-> <<Head(list)>>,
        reason |-> "none"]

\* the generator moves as r says; idle is the idle timer if it goes on.
\* When it ends, the finally block clears the timer and releases the lock.
ApplyAdvance(r, idle) ==
  /\ gen' = r.gen
  /\ parsed' = r.parsed
  /\ yielded' = yielded \o r.out
  /\ IF r.gen = "ended"
     THEN /\ endReason' = r.reason
          /\ idleTimeoutId' = -1
          /\ readers' = readers - 1
          /\ released' = released + 1
     ELSE /\ idleTimeoutId' = idle
          /\ UNCHANGED <<endReason, readers, released>>

\* a pending reader.read() can settle: the continuation of the generator
\* runs before any other task
ReadReady ==
  gen = "reading" /\ (queue # <<>> \/ bodyState \in {"closed", "errored"})

\* the consumer asks for the next event
Pull ==
  /\ pc = "handle"
  /\ \/ /\ gen = "notStarted"
        \* body.getReader(), resetIdleTimeout(), reader.read()
        /\ gen' = "reading"
        /\ readers' = readers + 1
        /\ acquired' = acquired + 1
        /\ idleTimeoutId' = IF mode = "distributed"
                            THEN streamIdleTimeoutMs ELSE idleTimeoutId
        /\ UNCHANGED <<parsed, yielded, released, endReason>>
     \/ /\ gen = "yielding"
        /\ ApplyAdvance(GenAdvance(parsed, flushing, mode), idleTimeoutId)
        /\ UNCHANGED acquired
  /\ UNCHANGED <<connVars, timeoutId, connectionTimeoutId, fired, bodyVars,
                 buffer, pending, flushing, aborted, abortCalls, abortAt, sinceChunk>>

\* generator.return() with a finally block that leaves the idle timer alone
Return_TimerKept ==
  /\ pc = "handle"
  /\ gen = "yielding"
  /\ gen' = "ended"
  /\ endReason' = "return"
  /\ readers' = readers - 1
  /\ released' = released + 1
  /\ UNCHANGED <<connVars, timerVars, bodyVars, buffer, pending, parsed,
                 flushing, yielded, acquired, aborted, abortCalls, abortAt,
                 sinceChunk>>

\* the consumer leaves its loop at an event: generator.return() runs the
\* finally block
Return ==
  /\ pc = "handle"
  /\ gen = "yielding"
  /\ gen' = "ended"
  /\ endReason' = "return"
  /\ idleTimeoutId' = -1
  /\ readers' = readers - 1
  /\ released' = released + 1
  /\ UNCHANGED <<connVars, timeoutId, connectionTimeoutId, fired, bodyVars,
                 buffer, pending, parsed, flushing, yielded, acquired,
                 aborted, abortCalls, abortAt, sinceChunk>>

\* an exception leaves the generator through its finally block
\* an exception leaving the generator without the finally block
GenThrow_NoRelease(e, reason) ==
  /\ gen' = "threw"
  /\ error' = e
  /\ endReason' = reason
  /\ idleTimeoutId' = -1
  /\ UNCHANGED <<parsed, yielded, readers, released>>

GenThrow(e, reason) ==
  /\ gen' = "threw"
  /\ error' = e
  /\ endReason' = reason
  /\ idleTimeoutId' = -1
  /\ readers' = readers - 1
  /\ released' = released + 1
  /\ UNCHANGED <<parsed, yielded>>

\* an exception that the decoding of a line lets through
DecodeError == Err("SyntaxError", -1, "none", Undefined)

\* the loop over the events of res, the result of an extraction
AfterExtract(res, fl, idle) ==
  IF res.threw THEN GenThrow(DecodeError, "decode")
  ELSE /\ ApplyAdvance(GenAdvance(res.parsed, fl, mode), idle)
       /\ UNCHANGED error

\* the loop body after a read that returned a chunk: resetIdleTimeout(),
\* the buffer takes the decoded text, the complete lines are extracted
\* a chunk read that does not call resetIdleTimeout
ReadExtracted_NoReset(res) ==
  /\ buffer' = IF res.threw THEN buffer ELSE res.remaining
  /\ AfterExtract(res, FALSE, idleTimeoutId)

ReadExtracted(res) ==
  /\ buffer' = IF res.threw THEN buffer ELSE res.remaining
  /\ AfterExtract(res, FALSE,
                  IF mode = "distributed"
                  THEN streamIdleTimeoutMs ELSE idleTimeoutId)

ReadChunk(d) ==
  /\ pending' = d.pending
  /\ ReadExtracted(Extract(mode, buffer \o d.text))

\* `await reader.read()` settles and the generator runs to its next
\* suspension
ReadSettle ==
  /\ pc = "handle"
  /\ ReadReady
  /\ IF bodyState = "errored"
     THEN \* read() rejects
          /\ GenThrow(IF bodyErr = "network" THEN BodyError
                      ELSE AbortError, bodyErr)
          /\ UNCHANGED <<buffer, pending, flushing, queue, bodyState>>
     ELSE IF queue # <<>>
     THEN /\ ReadChunk(Utf8Decode(pending, Head(queue), <<>>))
          /\ queue' = Tail(queue)
          /\ bodyState' = IF bodyState = "closing" /\ Tail(queue) = <<>>
                          THEN "closed" ELSE bodyState
          /\ UNCHANGED flushing
     ELSE \* done: the remaining buffer is processed
          /\ flushing' = TRUE
          /\ AfterExtract(IF Trim(buffer) # <<>>
                          THEN Extract(mode, buffer \o NL)
                          ELSE Extracted(<<>>, <<>>), TRUE, idleTimeoutId)
          /\ UNCHANGED <<buffer, pending, queue, bodyState>>
  /\ UNCHANGED <<pc, requests, open, status, rawText, errorText, mode, timeoutId,
                 connectionTimeoutId, fired, stream, pos, bodyErr, acquired,
                 aborted, abortCalls, abortAt, sinceChunk>>

\* the sizes a chunk can have when n bytes are still to come: any size, and
\* in a run of the JSON mode or of the hook one or two times ChunkStep, or the rest of
\* the stream when it is not longer
ChunkSizes(n) ==
  IF run = "none" /\ hook = "none" THEN 1 .. n
  ELSE {k \in 1 .. n : k <= 2 * ChunkStep /\ (k = n \/ k % ChunkStep = 0)}

\* the next k bytes of the stream arrive as one chunk
Arrive ==
  /\ pc = "handle"
  /\ bodyState = "readable"
  /\ ~ReadReady
  /\ Len(queue) < MaxQueue
  /\ \E k \in ChunkSizes(Len(stream) - pos) :
       /\ queue' = Append(queue, SubSeq(stream, pos + 1, pos + k))
       /\ pos' = pos + k
  /\ UNCHANGED <<connVars, timerVars, stream, bodyState, bodyErr, genVars,
                 aborted, abortCalls, abortAt>>
  /\ sinceChunk' = 0

\* the server ends the stream after its last byte
Close ==
  /\ pc = "handle"
  /\ bodyState = "readable"
  /\ ~ReadReady
  /\ pos = Len(stream)
  /\ bodyState' = IF queue = <<>> THEN "closed" ELSE "closing"
  /\ open' = {}
  /\ UNCHANGED <<pc, requests, status, rawText, errorText, error, mode, timerVars, stream, pos,
                 queue, bodyErr, genVars, aborted, abortCalls, abortAt, sinceChunk>>

\* the connection breaks while the body is being received
BodyFails ==
  /\ pc = "handle"
  /\ bodyState = "readable"
  /\ ~ReadReady
  /\ bodyState' = "errored"
  /\ bodyErr' = "network"
  /\ queue' = <<>>
  /\ open' = {}
  /\ UNCHANGED <<pc, requests, status, rawText, errorText, error, mode, timerVars, stream, pos,
                 genVars, aborted, abortCalls, abortAt, sinceChunk>>

\* controller.abort(): the first call sets the signal and errors a body
\* that is still readable; later calls do nothing
\* an abort that sets the signal and leaves the body alone
ControllerAbort_SignalOnly(cause) ==
  /\ aborted' = TRUE
  /\ UNCHANGED <<bodyState, bodyErr, queue, open>>

ControllerAbort(cause) ==
  /\ aborted' = TRUE
  /\ IF ~aborted /\ bodyState \in {"readable", "closing"}
     THEN /\ bodyState' = "errored"
          /\ bodyErr' = cause
          /\ queue' = <<>>
          /\ open' = {}
     ELSE UNCHANGED <<bodyState, bodyErr, queue, open>>

\* handle.abort()
Abort ==
  /\ pc = "handle"
  /\ ~ReadReady
  /\ abortCalls < MaxAborts
  /\ abortCalls' = abortCalls + 1
  /\ abortAt' = IF abortCalls = 0 THEN gen ELSE abortAt
  /\ ControllerAbort("abort")
  /\ UNCHANGED <<pc, requests, status, rawText, errorText, error, mode, timerVars, stream, pos,
                 genVars, sinceChunk>>

\* the callback of the idle timer
IdleTimeout ==
  /\ idleTimeoutId = 0
  /\ ~ReadReady
  /\ idleTimeoutId' = -1
  /\ fired' = fired \cup {<<"idleTimeoutId", pc, gen>>}
  /\ ControllerAbort("idle")
  /\ UNCHANGED <<pc, requests, status, rawText, errorText, error, mode, timeoutId,
                 connectionTimeoutId, stream, pos, gen, buffer, pending,
                 parsed, flushing, yielded, readers, acquired, released,
                 endReason, abortCalls, abortAt, sinceChunk>>

\* one tick of the clock: every armed timer comes one tick closer; a timer
\* that is due fires before the clock moves on
Dec(t) == IF t > 0 THEN t - 1 ELSE t
Tick ==
  /\ ~ReadReady
  /\ timeoutId # 0 /\ connectionTimeoutId # 0 /\ idleTimeoutId # 0
  /\ timeoutId > 0 \/ connectionTimeoutId > 0 \/ idleTimeoutId > 0
  /\ timeoutId' = Dec(timeoutId)
  /\ connectionTimeoutId' = Dec(connectionTimeoutId)
  /\ idleTimeoutId' = Dec(idleTimeoutId)
  /\ UNCHANGED <<connVars, fired, bodyVars, genVars, aborted, abortCalls, abortAt>>
  /\ sinceChunk' = IF sinceChunk < streamIdleTimeoutMs
                   THEN sinceChunk + 1 ELSE sinceChunk

Next ==
  \/ Connect /\ UNCHANGED <<runVars, callVars, hookVars, toolVars>>
  \/ PostHeaders /\ UNCHANGED <<runVars, callVars, hookVars, toolVars>>
  \/ PostFails /\ UNCHANGED <<runVars, callVars, hookVars, toolVars>>
  \/ PostErrorBody /\ UNCHANGED <<runVars, callVars, hookVars, toolVars>>
  \/ ConnectTimeout /\ UNCHANGED <<runVars, callVars, hookVars, toolVars>>
  \/ HandshakeBody /\ UNCHANGED <<runVars, callVars, hookVars, toolVars>>
  \/ HandshakeFails /\ UNCHANGED <<runVars, callVars, hookVars, toolVars>>
  \/ GetHeaders /\ UNCHANGED <<runVars, callVars, hookVars, toolVars>>
  \/ GetFails /\ UNCHANGED <<runVars, callVars, hookVars, toolVars>>
  \/ GetErrorBody /\ UNCHANGED <<runVars, callVars, hookVars, toolVars>>
  \/ GetTimeout /\ UNCHANGED <<runVars, callVars, hookVars, toolVars>>
  \/ Pull /\ UNCHANGED <<runVars, callVars, hookVars, toolVars>>
  \/ Return /\ UNCHANGED <<runVars, callVars, hookVars, toolVars>>
  \/ ReadSettle /\ UNCHANGED <<runVars, callVars, hookVars, toolVars>>
  \/ Arrive /\ UNCHANGED <<runVars, callVars, hookVars, toolVars>>
  \/ Close /\ UNCHANGED <<runVars, callVars, hookVars, toolVars>>
  \/ BodyFails /\ UNCHANGED <<runVars, callVars, hookVars, toolVars>>
  \/ Abort /\ UNCHANGED <<runVars, callVars, hookVars, toolVars>>
  \/ IdleTimeout /\ UNCHANGED <<runVars, callVars, hookVars, toolVars>>
  \/ Tick /\ UNCHANGED <<runVars, callVars, hookVars, toolVars>>

Spec == Init /\ [][Next]_vars

(***************************************************************************)
(* The decoding of a whole stream: a handle whose events are pulled to     *)
(* the end while the server sends any stream of at most two lines, cut     *)
(* into chunks at any byte                                                 *)
(***************************************************************************)
DecodeLines ==
  {LineMsg, LineDone, LineBad, LineErr, LineComment, LineAccent,
   LineString, LineBlank}

DecodeStreams ==
  {<<>>}
  \cup DecodeLines
  \cup {l \o NL : l \in DecodeLines}
  \cup {l1 \o NL \o l2 : l1, l2 \in DecodeLines}
  \cup {l1 \o NL \o l2 \o NL : l1, l2 \in DecodeLines}

InitDecode ==
  /\ pc = "handle"
  /\ mode \in {"sync", "distributed"}
  /\ requests = IF mode = "sync" THEN <<"POST">> ELSE <<"POST", "GET">>
  /\ open = IF mode = "sync" THEN {"POST"} ELSE {"GET"}
  /\ status = IF mode = "sync" THEN <<200>> ELSE <<202, 200>>
  /\ rawText = IF mode = "sync" THEN NoText ELSE Text(HandshakeOk)
  /\ errorText = NoText
  /\ aborted = FALSE
  /\ timeoutId = -1
  /\ connectionTimeoutId = -1
  /\ idleTimeoutId = -1
  /\ fired = {}
  /\ error = NoError
  /\ stream \in DecodeStreams
  /\ pos = 0
  /\ queue = <<>>
  /\ bodyState = "readable"
  /\ bodyErr = "none"
  /\ gen = "notStarted"
  /\ buffer = <<>>
  /\ pending = <<>>
  /\ parsed = <<>>
  /\ flushing = FALSE
  /\ yielded = <<>>
  /\ readers = 0
  /\ acquired = 0
  /\ released = 0
  /\ endReason = "none"
  /\ abortCalls = 0
  /\ abortAt = "none"
  /\ sinceChunk = streamIdleTimeoutMs
  /\ NoRun
  /\ NoCall
  /\ NoHook
  /\ NoTools

NextDecode ==
  \/ Pull /\ UNCHANGED <<runVars, callVars, hookVars, toolVars>>
  \/ ReadSettle /\ UNCHANGED <<runVars, callVars, hookVars, toolVars>>
  \/ Arrive /\ UNCHANGED <<runVars, callVars, hookVars, toolVars>>
  \/ Close /\ UNCHANGED <<runVars, callVars, hookVars, toolVars>>

SpecDecode == InitDecode /\ [][NextDecode]_vars

(***************************************************************************)
(* Calls of the decoders, the type guard and the classifier                *)
(***************************************************************************)
sessionVars == <<connVars, timerVars, bodyVars, genVars, aborted, abortCalls,
                 abortAt, sinceChunk>>

\* JSON.stringify of a string: the quote, the backslash and the line feed
\* are escaped
EscapeChar(c) ==
  IF c = "\"" THEN <<"\\", "\"">>
  ELSE IF c = "\\" THEN <<"\\", "\\">>
  ELSE IF c = "\n" THEN <<"\\", "n">>
  ELSE <<c>>

RECURSIVE EscapeChars(_)
EscapeChars(s) ==
  IF s = <<>> THEN <<>> ELSE EscapeChar(Head(s)) \o EscapeChars(Tail(s))

Quote(s) == <<"\"">> \o EscapeChars(s) \o <<"\"">>

RECURSIVE JSONStringify(_)
RECURSIVE StringifyElements(_, _)
RECURSIVE StringifyMembers(_, _)

StringifyElements(a, i) ==
  IF i > Len(a) THEN <<>>
  ELSE (IF i > 1 THEN <<",">> ELSE <<>>)
       \o JSONStringify(a[i]) \o StringifyElements(a, i + 1)

\* the member k and the members after it
StringifyMember(o, keys, k) ==
  Quote(k) \o <<":">> \o JSONStringify(o[k])
  \o (IF keys \ {k} = {} THEN <<>>
      ELSE <<",">> \o StringifyMembers(o, keys \ {k}))

StringifyMembers(o, keys) ==
  IF keys = {} THEN <<>>
  ELSE StringifyMember(o, keys, CHOOSE k \in keys : TRUE)

\* JSON.stringify(v) of a JSON value; undefined in an array is written
\* null and a member that is undefined is left out
JSONStringify(v) ==
  CASE v.t = "str" -> Quote(v.s)
    [] v.t = "num" -> NumToStr(v.n)
    [] v.t = "bool" -> IF v.b THEN <<"t", "r", "u", "e">> ELSE <<"f", "a", "l", "s", "e">>
    [] v.t = "arr" -> <<"[">> \o StringifyElements(v.a, 1) \o <<"]">>
    [] v.t = "obj" ->
         <<"{">>
         \o StringifyMembers(v.o, {k \in DOMAIN v.o : v.o[k] # Undefined})
         \o <<"}">>
    [] OTHER -> <<"n", "u", "l", "l">>

\* the line a server writes for the event [t, p]
EncodeLine(t, p) == DataPrefix \o JSONStringify(JArr(<<JStr(t), p>>))

\* event type tags: the four the consumers know, done, and others
Tags ==
  {<<"m", "e", "s", "s", "a", "g", "e", "s">>, <<"v", "a", "l", "u", "e", "s">>, <<"e", "r", "r", "o", "r">>, <<"m", "e", "t", "a", "d", "a", "t", "a">>, <<"d", "o", "n", "e">>,
   <<"c", "u", "s", "t", "o", "m">>, <<>>, <<"a", "\"", "b">>}

KeyContent == <<"c", "o", "n", "t", "e", "n", "t">>
KeyMessages == <<"m", "e", "s", "s", "a", "g", "e", "s">>
ObjectOf(key, val) == JObj([k \in {key} |-> val])

\* payloads of an event
Payloads ==
  {JNull, JBool(TRUE), JBool(FALSE), JNum(0), JNum(42), JStr(<<>>),
   JStr(<<"h", "i">>), JStr(<<"a", "\"", "\\", "\n", "b">>), JArr(<<>>),
   JArr(<<JNum(1), JStr(<<"a">>)>>), JObj(<<>>),
   ObjectOf(KeyContent, JStr(<<"h", "i">>)),
   JArr(<<ObjectOf(KeyContent, JStr(<<"h", "i">>)), JObj(<<>>)>>),
   ObjectOf(KeyMessages, JArr(<<>>))}

\* payloads of a data line: valid JSON of every shape, and text that is
\* not JSON
DataTexts ==
  {<<"5">>, <<"t", "r", "u", "e">>, <<"n", "u", "l", "l">>, <<"\"", "a", "b", "\"">>, <<"\"", "\"">>, <<"\"", "a", "\"">>, <<"{", "\"", "a", "\"", ":", "1", "}">>,
   <<"{", "}">>, <<"[", "]">>, <<"[", "7", "]">>, <<"[", "\"", "m", "\"", "]">>, <<"[", "\"", "a", "\"", ",", "1", ",", "2", "]">>, <<"[", "\"", "m", "\"", ",", "1", "]">>,
   <<"{", "\"", "e", "r", "r", "o", "r", "\"", ":", "\"", "x", "\"", "}">>, <<"{", "o", "o", "p", "s">>, <<"[", "D", "O", "N", "E", "]">>}

\* a string of n characters
StringOfLength(n) == [i \in 1 .. n |-> "a"]

\* values of the field `distributed` and of the field `thread_id`;
\* Undefined stands for a missing field
DistributedValues ==
  {Undefined, JBool(TRUE), JBool(FALSE), JStr(<<"t", "r", "u", "e">>), JNum(1), JNull}
ThreadIdValues ==
  {Undefined, JNull, JNum(1), JBool(TRUE), JArr(<<JStr(<<"t">>)>>)}
  \cup {JStr(StringOfLength(n)) :
          n \in {0, 1, 2, MaxThreadIdLen - 1, MaxThreadIdLen,
                 MaxThreadIdLen + 1, MaxThreadIdLen + 2}}

\* the object with the two fields, a field of value Undefined left out
ResponseOf(d, id) ==
  JObj([k \in {x \in {KeyDistributed, KeyThreadId} :
                 (IF x = KeyDistributed THEN d ELSE id) # Undefined}
          |-> IF k = KeyDistributed THEN d ELSE id])

GuardInputs ==
  {ResponseOf(d, id) : d \in DistributedValues, id \in ThreadIdValues}
  \cup {Undefined, JNull, JNum(0), JBool(TRUE), JStr(<<"d", "i", "s", "t", "r", "i", "b", "u", "t", "e", "d">>),
        JArr(<<>>), JArr(<<JBool(TRUE), JStr(<<"t">>)>>)}

\* messages of thrown errors
ErrorMessages ==
  {<<"f", "e", "t", "c", "h", " ", "f", "a", "i", "l", "e", "d">>, <<"c", "o", "n", "n", "e", "c", "t", " ", "E", "C", "O", "N", "N", "R", "E", "F", "U", "S", "E", "D", " ", "1", "2", "7", ".", "0", ".", "0", ".", "1", ":", "8", "0", "0", "0">>,
   <<"g", "e", "t", "a", "d", "d", "r", "i", "n", "f", "o", " ", "E", "N", "O", "T", "F", "O", "U", "N", "D", " ", "h", "o", "s", "t">>, <<"N", "e", "t", "w", "o", "r", "k", " ", "d", "o", "w", "n">>, <<"R", "e", "q", "u", "e", "s", "t", " ", "t", "i", "m", "e", "o", "u", "t">>,
   <<"H", "T", "T", "P", " ", "4", "0", "1">>, <<"U", "n", "a", "u", "t", "h", "o", "r", "i", "z", "e", "d", " ", "a", "c", "c", "e", "s", "s">>, <<"R", "a", "t", "e", " ", "l", "i", "m", "i", "t", " ", "e", "x", "c", "e", "e", "d", "e", "d">>,
   <<"H", "T", "T", "P", " ", "4", "2", "9">>, <<"H", "T", "T", "P", " ", "5", "0", "0">>, <<"H", "T", "T", "P", " ", "5", "0", "2">>, <<"H", "T", "T", "P", " ", "5", "0", "3">>, <<"H", "T", "T", "P", " ", "4", "0", "4">>,
   <<"R", "e", "q", "u", "e", "s", "t", " ", "a", "b", "o", "r", "t", "e", "d">>, <<"S", "o", "m", "e", "t", "h", "i", "n", "g", " ", "u", "n", "e", "x", "p", "e", "c", "t", "e", "d">>, <<"b", "a", "d", " ", "k", "e", "y">>, <<>>,
   <<"n", "e", "t", "w", "o", "r", "k", " ", "t", "i", "m", "e", "o", "u", "t", " ", "4", "0", "1", " ", "r", "a", "t", "e", " ", "l", "i", "m", "i", "t", " ", "5", "0", "0">>,
   <<"r", "a", "t", "e", " ", "l", "i", "m", "i", "t", " ", "5", "0", "3">>, <<"H", "T", "T", "P", " ", "5", "0", "0", " ", "n", "e", "t", "w", "o", "r", "k">>,
   <<"n", "e", "t", "w", "o", "r", "k", " ", "t", "i", "m", "e", "o", "u", "t">>}

\* thrown values: Errors of the names the program meets, and values that
\* are no Error (the name "none")
ThrownValues ==
  {Err(n, -1, "none", JStr(m)) :
     n \in {"Error", "TypeError", "none"}, m \in ErrorMessages}
  \cup {AbortError, NetworkError, BodyError, NoError}

\* the second argument of classifyError, -1 when it is left out
StatusCodes == {-1, 0, 200, 400, 401, 403, 404, 429, 499, 500, 502, 503, 599}

KeyType == <<"t", "y", "p", "e">>
KeyText == <<"t", "e", "x", "t">>
KeyZero == <<"0">>
StrTextType == <<"t", "e", "x", "t">>

\* v == null
IsNullish(v) == v = Undefined \/ v = JNull

\* the truth value of v in a condition
Truthy(v) ==
  CASE v.t = "str" -> v.s # <<>>
    [] v.t = "num" -> v.n # 0
    [] v.t = "bool" -> v.b
    [] v.t \in {"arr", "obj"} -> TRUE
    [] OTHER -> FALSE

\* v[0] of a value that is not null or undefined
Index0(v) ==
  CASE v.t = "arr" -> IF Len(v.a) >= 1 THEN v.a[1] ELSE Undefined
    [] v.t = "str" -> IF Len(v.s) >= 1 THEN JStr(<<v.s[1]>>) ELSE Undefined
    [] v.t = "obj" -> Get(v, KeyZero)
    [] OTHER -> Undefined

\* content?.[0]?.text
FirstText(content) ==
  IF IsNullish(content) THEN Undefined
  ELSE IF IsNullish(Index0(content)) THEN Undefined
  ELSE Get(Index0(content), KeyText)

extractContent(content) ==
  IF content.t = "str" THEN content ELSE FirstText(content)

\* String(v)
RECURSIVE StringOf(_)
RECURSIVE JoinStrings(_, _)
JoinStrings(a, i) ==
  IF i > Len(a) THEN <<>>
  ELSE (IF i > 1 THEN <<",">> ELSE <<>>)
       \o (IF IsNullish(a[i]) THEN <<>> ELSE StringOf(a[i]))
       \o JoinStrings(a, i + 1)

StringOf(v) ==
  CASE v.t = "str" -> v.s
    [] v.t = "num" -> NumToStr(v.n)
    [] v.t = "bool" -> IF v.b THEN <<"t", "r", "u", "e">> ELSE <<"f", "a", "l", "s", "e">>
    [] v.t = "null" -> <<"n", "u", "l", "l">>
    [] v.t = "arr" -> JoinStrings(v.a, 1)
    [] v.t = "obj" -> <<"[", "o", "b", "j", "e", "c", "t", " ", "O", "b", "j", "e", "c", "t", "]">>
    [] OTHER -> <<"u", "n", "d", "e", "f", "i", "n", "e", "d">>

\* the item is an object with `type` equal to 'text' and a `text`
IsTextItem(item) ==
  /\ item.t = "obj"
  /\ KeyType \in DOMAIN item.o
  /\ item.o[KeyType] = JStr(StrTextType)
  /\ KeyText \in DOMAIN item.o

\* the loop over the items of an array content, from the i-th on
RECURSIVE FirstTextItem(_, _)
FirstTextItem(a, i) ==
  IF i > Len(a) THEN JStr(<<>>)
  ELSE IF IsTextItem(a[i]) THEN JStr(StringOf(a[i].o[KeyText]))
  ELSE FirstTextItem(a, i + 1)

\* the content of a payload that is an object
ContentText(content) ==
  IF content.t = "str" THEN content
  ELSE IF content.t = "arr" THEN FirstTextItem(content.a, 1)
  ELSE JStr(<<>>)

extractContentFromPayload(payload) ==
  IF ~Truthy(payload) \/ ~IsObjectLike(payload) THEN JStr(<<>>)
  ELSE ContentText(Get(payload, KeyContent))

\* a content block
Block(type, text) == JObj((KeyType :> type) @@ (KeyText :> text))

\* the defaults of truncate
defaults ==
  [maxLength |-> 500, maxLines |-> 10,
   indicator |-> <<".", ".", ".", " ", "[", "t", "r", "u", "n", "c", "a", "t", "e", "d", "]">>]

\* s.slice(0, end) of a string or an array
SliceTo(s, end) ==
  SubSeq(s, 1, IF end < 0
               THEN (IF Len(s) + end < 0 THEN 0 ELSE Len(s) + end)
               ELSE (IF end > Len(s) THEN Len(s) ELSE end))

\* lines.join('\n')
RECURSIVE JoinFrom(_, _)
JoinFrom(lines, i) ==
  IF i > Len(lines) THEN <<>>
  ELSE IF i = Len(lines) THEN lines[i]
  ELSE lines[i] \o NL \o JoinFrom(lines, i + 1)

Join(lines) == JoinFrom(lines, 1)

Truncated(text, wasTruncated) ==
  [text |-> text, wasTruncated |-> wasTruncated]

truncateByLines(input, maxLines, indicator) ==
  IF Len(Split(input)) <= maxLines THEN Truncated(input, FALSE)
  ELSE Truncated(Join(SliceTo(Split(input), maxLines)) \o NL \o indicator,
                 TRUE)

truncateByLength(input, maxLength, indicator) ==
  IF Len(input) <= maxLength THEN Truncated(input, FALSE)
  ELSE IF maxLength - Len(indicator) <= 0 THEN Truncated(indicator, TRUE)
  ELSE Truncated(SliceTo(input, maxLength - Len(indicator)) \o indicator,
                 TRUE)

\* the character truncation of the result of the line truncation
truncateThen(result, maxLength, indicator) ==
  IF Len(result.text) > maxLength
  THEN Truncated(truncateByLength(result.text, maxLength, indicator).text,
                 result.wasTruncated
                 \/ truncateByLength(result.text, maxLength,
                                     indicator).wasTruncated)
  ELSE result

\* the two truncations the other way round: characters first, then lines
truncateWith_LengthFirst(input, maxLength, maxLines, indicator) ==
  Truncated(
    truncateByLines(truncateByLength(input, maxLength, indicator).text,
                    maxLines, indicator).text,
    truncateByLength(input, maxLength, indicator).wasTruncated
    \/ truncateByLines(truncateByLength(input, maxLength, indicator).text,
                       maxLines, indicator).wasTruncated)

truncateWith(input, maxLength, maxLines, indicator) ==
  truncateThen(truncateByLines(input, maxLines, indicator), maxLength,
               indicator)

\* options.maxLength ?? defaults.maxLength, and the like
OptionNum(v, d) == IF IsNullish(v) THEN d ELSE v.n
OptionStr(v, d) == IF IsNullish(v) THEN d ELSE v.s

truncate(input, options) ==
  truncateWith(input,
               OptionNum(options.maxLength, defaults.maxLength),
               OptionNum(options.maxLines, defaults.maxLines),
               OptionStr(options.indicator, defaults.indicator))

\* the texts of at most n characters over a letter and the line feed
RECURSIVE ShortTexts(_)
ShortTexts(n) ==
  IF n = 0 THEN {<<>>}
  ELSE ShortTexts(n - 1)
       \cup {Append(t, c) : t \in ShortTexts(n - 1), c \in {"a", "\n"}}

\* inputs of truncate: the short texts and one text longer than the
\* default indicator
TruncateInputs ==
  ShortTexts(4) \cup {<<"a", "a", "a", "a", "a", "a", "a", "a", "\n", "a", "a", "a", "a", "a", "a", "a", "a", "a", "a">>}

TruncateOptions ==
  [maxLength : {Undefined} \cup {JNum(n) : n \in (0 .. 5) \cup {15, 16}},
   maxLines : {Undefined} \cup {JNum(n) : n \in -1 .. 2},
   indicator : {Undefined, JStr(<<>>), JStr(<<".">>), JStr(<<".", ".">>)}]


\* values of `content`
Contents ==
  {Undefined, JNull, JNum(5), JStr(<<>>), JStr(<<"h", "i">>), JArr(<<>>),
   JArr(<<JNull>>), JArr(<<JStr(<<"a", "b">>)>>),
   JArr(<<Block(JStr(StrTextType), JStr(<<"h", "i">>))>>),
   JArr(<<Block(JStr(StrTextType), JStr(<<"h", "i">>)),
          Block(JStr(StrTextType), JStr(<<"y", "o">>))>>),
   JArr(<<Block(JStr(StrTextType), JNum(5))>>),
   JArr(<<ObjectOf(KeyType, JStr(StrTextType))>>),
   JArr(<<ObjectOf(KeyText, JStr(<<"h", "i">>))>>),
   JArr(<<Block(JStr(<<"i", "m", "a", "g", "e">>), JStr(<<"x">>))>>),
   JArr(<<ObjectOf(KeyType, JStr(<<"i", "m", "a", "g", "e">>)),
          Block(JStr(StrTextType), JStr(<<"h", "i">>))>>),
   ObjectOf(KeyText, JStr(<<"h", "i">>))}

\* values of a payload: any value, and objects with a content
ContentPayloads ==
  {Undefined, JNull, JStr(<<"h", "i">>), JArr(<<>>), JObj(<<>>)}
  \cup {ObjectOf(KeyContent, c) : c \in Contents \ {Undefined}}

CallArgs ==
  [f : {"roundTrip"}, mode : {"sync", "distributed"}, t : Tags,
   p : Payloads]
  \cup [f : {"decode"}, mode : {"sync", "distributed"}, data : DataTexts]
  \cup [f : {"isDistributedResponse"}, x : GuardInputs]
  \cup [f : {"classifyError"}, e : ThrownValues, statusCode : StatusCodes]
  \cup [f : {"extractContent"}, content : Contents]
  \cup [f : {"extractContentFromPayload"}, payload : ContentPayloads]
  \cup [f : {"truncate"}, input : TruncateInputs, options : TruncateOptions]

InitCalls ==
  /\ Constructed
  /\ NoRun
  /\ fn = "none"
  /\ arg \in CallArgs
  /\ ret = Undefined
  /\ NoHook
  /\ NoTools

Returns(f, value) ==
  /\ fn = "none"
  /\ arg.f = f
  /\ fn' = f
  /\ ret' = value
  /\ UNCHANGED <<arg, sessionVars, runVars, hookVars, toolVars>>

\* the line of an event [t, p] is encoded and decoded
CallRoundTrip ==
  /\ arg.f = "roundTrip"
  /\ Returns("roundTrip", Extract(arg.mode, EncodeLine(arg.t, arg.p) \o NL))

\* a data line is decoded
CallDecode ==
  /\ arg.f = "decode"
  /\ Returns("decode", Extract(arg.mode, DataPrefix \o arg.data \o NL))

CallIsDistributedResponse ==
  /\ arg.f = "isDistributedResponse"
  /\ Returns("isDistributedResponse", isDistributedResponse(arg.x))

CallClassifyError ==
  /\ arg.f = "classifyError"
  /\ Returns("classifyError", classifyError(arg.e, arg.statusCode))

CallExtractContent ==
  /\ arg.f = "extractContent"
  /\ Returns("extractContent", extractContent(arg.content))

CallExtractContentFromPayload ==
  /\ arg.f = "extractContentFromPayload"
  /\ Returns("extractContentFromPayload",
             extractContentFromPayload(arg.payload))

CallTruncate ==
  /\ arg.f = "truncate"
  /\ Returns("truncate", truncate(arg.input, arg.options))

NextCalls ==
  \/ CallRoundTrip
  \/ CallDecode
  \/ CallIsDistributedResponse
  \/ CallClassifyError
  \/ CallExtractContent
  \/ CallExtractContentFromPayload
  \/ CallTruncate

SpecCalls == InitCalls /\ [][NextCalls]_vars


(***************************************************************************)
(* The JSON mode of the chat command: runJsonMode, extractContent,         *)
(* OutputFormatter and writeJson                                           *)
(***************************************************************************)
KeyCode == <<"c", "o", "d", "e">>
KeyResponse == <<"r", "e", "s", "p", "o", "n", "s", "e">>
StrMessages == <<"m", "e", "s", "s", "a", "g", "e", "s">>
StrValues == <<"v", "a", "l", "u", "e", "s">>
StrError == <<"e", "r", "r", "o", "r">>
StrChunk == <<"c", "h", "u", "n", "k">>
MsgNotAuthenticated == <<"N", "o", "t", " ", "a", "u", "t", "h", "e", "n", "t", "i", "c", "a", "t", "e", "d", ".", " ", "R", "u", "n", " ", Backquote, "r", "u", "s", "k", "a", " ", "a", "u", "t", "h", Backquote, " ", "t", "o", " ", "c", "o", "n", "f", "i", "g", "u", "r", "e", ".">>
MsgCannotRead == <<"C", "a", "n", "n", "o", "t", " ", "r", "e", "a", "d", " ", "p", "r", "o", "p", "e", "r", "t", "i", "e", "s", " ", "o", "f", " ">>
MsgReading == <<" ", "(", "r", "e", "a", "d", "i", "n", "g", " ", "'">>
MsgReadingEnd == <<"'", ")">>
NameNull == <<"n", "u", "l", "l">>
NameUndefined == <<"u", "n", "d", "e", "f", "i", "n", "e", "d">>

\* the TypeError of reading the property prop of null or undefined
TypeErrorOf(v, prop) ==
  Err("TypeError", -1, "none",
      JStr(MsgCannotRead
           \o (IF v = JNull THEN NameNull ELSE NameUndefined)
           \o MsgReading \o prop \o MsgReadingEnd))

\* event.payload[0]?.content of a payload that is not null or undefined
FirstContent(payload) ==
  IF IsNullish(Index0(payload)) THEN Undefined
  ELSE Get(Index0(payload), KeyContent)

\* the records of OutputFormatter: the members of each object literal, in
\* the order they are written
FormatterChunk(content) ==
  <<<<KeyType, JStr(StrChunk)>>, <<KeyContent, content>>>>
FormatterDone(valuesPayload) ==
  <<<<KeyType, JStr(StrDone)>>, <<KeyResponse, valuesPayload>>>>
FormatterError(code, message) ==
  <<<<KeyType, JStr(StrError)>>, <<KeyCode, JStr(code)>>,
    <<KeyMessage, message>>>>

\* the members from the i-th on, with their separators
RECURSIVE StringifyLiteralFrom(_, _)
StringifyLiteralFrom(members, i) ==
  IF i > Len(members) THEN <<>>
  ELSE (IF i > 1 THEN <<",">> ELSE <<>>)
       \o Quote(members[i][1]) \o <<":">> \o JSONStringify(members[i][2])
       \o StringifyLiteralFrom(members, i + 1)

\* JSON.stringify of an object literal: its members in their order, a
\* member that is undefined left out
StringifyLiteral(members) ==
  <<"{">>
  \o StringifyLiteralFrom(
       SelectSeq(members, LAMBDA m : m[2] # Undefined), 1)
  \o <<"}">>

\* the text of an error code
CodeText(code) ==
  CASE code = "AUTH_FAILED" -> <<"A", "U", "T", "H", "_", "F", "A", "I", "L", "E", "D">>
    [] code = "RATE_LIMITED" -> <<"R", "A", "T", "E", "_", "L", "I", "M", "I", "T", "E", "D">>
    [] code = "SERVER_ERROR" -> <<"S", "E", "R", "V", "E", "R", "_", "E", "R", "R", "O", "R">>
    [] code = "NETWORK_ERROR" -> <<"N", "E", "T", "W", "O", "R", "K", "_", "E", "R", "R", "O", "R">>
    [] code = "TIMEOUT" -> <<"T", "I", "M", "E", "O", "U", "T">>
    [] code = "STREAM_INTERRUPTED" -> <<"S", "T", "R", "E", "A", "M", "_", "I", "N", "T", "E", "R", "R", "U", "P", "T", "E", "D">>

\* process.stdout.write(JSON.stringify(output) + '\n')
writeJson(output) ==
  records' = Append(records, StringifyLiteral(output) \o NL)

\* the run ends with the record of an error and its exit code
RunFails(code, message, exitCode) ==
  /\ writeJson(FormatterError(CodeText(code), message))
  /\ processExitCode' = exitCode
  /\ run' = "finished"
  /\ UNCHANGED finalResponse

\* the catch block
RunCaught(classified) ==
  RunFails(classified.code, JStr(classified.message), classified.exitCode)

\* loadConfig() finds no configuration
RunNoConfig ==
  /\ run = "start"
  /\ RunFails("AUTH_FAILED", JStr(MsgNotAuthenticated),
              exitCodes.authFailed)
  /\ UNCHANGED <<sessionVars, callVars>>

\* there is a configuration: service.connect(request) is called
RunConnect ==
  /\ run = "start"
  /\ Connect
  /\ run' = "connecting"
  /\ UNCHANGED <<records, processExitCode, finalResponse, callVars>>

\* connect() has returned the handle and the loop asks for the first event
RunIterate ==
  /\ run = "connecting"
  /\ gen = "notStarted"
  /\ Pull
  /\ run' = "iterating"
  /\ UNCHANGED <<records, processExitCode, finalResponse, callVars>>

\* an exception in the body of the loop: the loop closes the generator and
\* the catch block reports the exception
RunThrows(e) ==
  /\ Return
  /\ RunCaught(classifyError(e, -1))

\* the body of the loop goes on to the next event
RunContinues ==
  /\ Pull
  /\ UNCHANGED <<run, processExitCode>>

\* case 'messages'
RunMessages(payload) ==
  IF IsNullish(payload) THEN RunThrows(TypeErrorOf(payload, KeyZero))
  ELSE /\ IF Truthy(extractContent(FirstContent(payload)))
          THEN writeJson(FormatterChunk(
                           extractContent(FirstContent(payload))))
          ELSE UNCHANGED records
       /\ RunContinues
       /\ UNCHANGED finalResponse

\* case 'values'
RunValues(payload) ==
  /\ finalResponse' = payload
  /\ RunContinues
  /\ UNCHANGED records

\* case 'error' without the return: the loop goes on after the record
RunError_NoReturn(payload) ==
  IF IsNullish(payload) THEN RunThrows(TypeErrorOf(payload, KeyMessage))
  ELSE /\ writeJson(FormatterError(CodeText("SERVER_ERROR"),
                                   Get(payload, KeyMessage)))
       /\ processExitCode' = exitCodes.serverError
       /\ Pull
       /\ UNCHANGED <<run, finalResponse>>


\* case 'error': the record is written and the function returns, which
\* closes the generator
RunError(payload) ==
  IF IsNullish(payload) THEN RunThrows(TypeErrorOf(payload, KeyMessage))
  ELSE /\ RunFails("SERVER_ERROR", Get(payload, KeyMessage),
                   exitCodes.serverError)
       /\ Return

\* the switch on the type of an event
RunSwitch(event) ==
  IF event.type = JStr(StrMessages) THEN RunMessages(event.payload)
  ELSE IF event.type = JStr(StrValues) THEN RunValues(event.payload)
  ELSE IF event.type = JStr(StrError) THEN RunError(event.payload)
  ELSE /\ RunContinues
       /\ UNCHANGED <<records, finalResponse>>

\* the body of the loop for the event the generator has yielded
RunEvent ==
  /\ run = "iterating"
  /\ gen = "yielding"
  /\ RunSwitch(Last(yielded))
  /\ UNCHANGED callVars

\* the event sequence has ended: the done record
RunDone ==
  /\ run = "iterating"
  /\ gen = "ended"
  /\ writeJson(IF Truthy(finalResponse) THEN FormatterDone(finalResponse)
               ELSE FormatterDone(ObjectOf(KeyMessages, JArr(<<>>))))
  /\ processExitCode' = exitCodes.success
  /\ run' = "finished"
  /\ UNCHANGED <<finalResponse, sessionVars, callVars>>

\* connect() rejected or the event sequence threw: the catch block
RunCatch ==
  /\ \/ run = "connecting" /\ pc = "rejected"
     \/ run = "iterating" /\ gen = "threw"
  /\ RunCaught(ClassifyCaught(error))
  /\ UNCHANGED <<sessionVars, callVars>>

InitJson ==
  /\ Constructed
  /\ run = "start"
  /\ records = <<>>
  /\ processExitCode = -1
  /\ finalResponse = Undefined
  /\ NoCall
  /\ NoHook
  /\ NoTools

NextJson ==
  \/ RunNoConfig /\ UNCHANGED <<hookVars, toolVars>>
  \/ RunConnect /\ UNCHANGED <<hookVars, toolVars>>
  \/ RunIterate /\ UNCHANGED <<hookVars, toolVars>>
  \/ RunEvent /\ UNCHANGED <<hookVars, toolVars>>
  \/ RunDone /\ UNCHANGED <<hookVars, toolVars>>
  \/ RunCatch /\ UNCHANGED <<hookVars, toolVars>>
  \/ PostHeaders /\ UNCHANGED <<runVars, callVars, hookVars, toolVars>>
  \/ PostFails /\ UNCHANGED <<runVars, callVars, hookVars, toolVars>>
  \/ PostErrorBody /\ UNCHANGED <<runVars, callVars, hookVars, toolVars>>
  \/ ConnectTimeout /\ UNCHANGED <<runVars, callVars, hookVars, toolVars>>
  \/ HandshakeBody /\ UNCHANGED <<runVars, callVars, hookVars, toolVars>>
  \/ HandshakeFails /\ UNCHANGED <<runVars, callVars, hookVars, toolVars>>
  \/ GetHeaders /\ UNCHANGED <<runVars, callVars, hookVars, toolVars>>
  \/ GetFails /\ UNCHANGED <<runVars, callVars, hookVars, toolVars>>
  \/ GetErrorBody /\ UNCHANGED <<runVars, callVars, hookVars, toolVars>>
  \/ GetTimeout /\ UNCHANGED <<runVars, callVars, hookVars, toolVars>>
  \/ ReadSettle /\ UNCHANGED <<runVars, callVars, hookVars, toolVars>>
  \/ Arrive /\ UNCHANGED <<runVars, callVars, hookVars, toolVars>>
  \/ Close /\ UNCHANGED <<runVars, callVars, hookVars, toolVars>>
  \/ BodyFails /\ UNCHANGED <<runVars, callVars, hookVars, toolVars>>
  \/ IdleTimeout /\ UNCHANGED <<runVars, callVars, hookVars, toolVars>>
  \/ Tick /\ UNCHANGED <<runVars, callVars, hookVars, toolVars>>

SpecJson == InitJson /\ [][NextJson]_vars


(***************************************************************************)
(* The hook useStream: one request, from the effect that starts it to its  *)
(* cleanup                                                                 *)
(***************************************************************************)
\* the catch block of run
HookCaught(e) ==
  IF cancelled THEN UNCHANGED <<streamStatus, hookResult>>
  ELSE /\ streamStatus' = "error"
       /\ hookResult' =
            [hookResult EXCEPT
               !.error = e.message,
               !.errorCode = IF e.name = "StreamConnectionError"
                             THEN e.statusCode ELSE -1]

\* an exception in the body of the loop: the loop closes the generator and
\* the catch block takes the exception
HookThrows(e) ==
  /\ Return
  /\ HookCaught(e)
  /\ hook' = "finished"

\* the body of the loop goes on to the next event
HookContinues ==
  /\ Pull
  /\ UNCHANGED <<hook, streamStatus>>

\* case 'messages'
HookMessages(payload) ==
  IF IsNullish(payload) THEN HookThrows(TypeErrorOf(payload, KeyZero))
  ELSE HookContinues /\ UNCHANGED hookResult

\* case 'values'
HookValues(payload) ==
  /\ hookResult' = [hookResult EXCEPT !.finalResponse = payload]
  /\ HookContinues

\* case 'error' without the return: the loop goes on
HookError_NoReturn(payload) ==
  IF IsNullish(payload) THEN HookThrows(TypeErrorOf(payload, KeyMessage))
  ELSE /\ hookResult' =
            [hookResult EXCEPT !.error = Get(payload, KeyMessage)]
       /\ streamStatus' = "error"
       /\ Pull
       /\ UNCHANGED hook

\* case 'error': the status is set and the function returns, which closes
\* the generator
HookError(payload) ==
  IF IsNullish(payload) THEN HookThrows(TypeErrorOf(payload, KeyMessage))
  ELSE /\ hookResult' =
            [hookResult EXCEPT !.error = Get(payload, KeyMessage)]
       /\ streamStatus' = "error"
       /\ Return
       /\ hook' = "finished"

\* the switch on the type of an event
HookSwitch(event) ==
  IF event.type = JStr(StrMessages) THEN HookMessages(event.payload)
  ELSE IF event.type = JStr(StrValues) THEN HookValues(event.payload)
  ELSE IF event.type = JStr(StrError) THEN HookError(event.payload)
  ELSE HookContinues /\ UNCHANGED hookResult

\* the effect starts run: the states are reset and service.connect(request)
\* is called
HookRun ==
  /\ hook = "idle"
  /\ Connect
  /\ hook' = "connecting"
  /\ streamStatus' = "connecting"
  /\ hookResult' = NoResult
  /\ UNCHANGED <<cancelled, handleReference>>

\* connect() has returned the handle
HookConnected ==
  /\ hook = "connecting"
  /\ gen = "notStarted"
  /\ handleReference' = TRUE
  /\ IF cancelled
     THEN /\ Abort
          /\ hook' = "finished"
          /\ UNCHANGED streamStatus
     ELSE /\ Pull
          /\ hook' = "iterating"
          /\ streamStatus' = "streaming"
  /\ UNCHANGED <<hookResult, cancelled>>

\* the body of the loop for the event the generator has yielded
HookEvent ==
  /\ hook = "iterating"
  /\ gen = "yielding"
  /\ IF cancelled
     THEN \* break, and the statement after the loop
          /\ Return
          /\ streamStatus' = "done"
          /\ hook' = "finished"
          /\ UNCHANGED hookResult
     ELSE HookSwitch(Last(yielded))
  /\ UNCHANGED <<cancelled, handleReference>>

\* the event sequence has ended
HookDone ==
  /\ hook = "iterating"
  /\ gen = "ended"
  /\ streamStatus' = "done"
  /\ hook' = "finished"
  /\ UNCHANGED <<hookResult, cancelled, handleReference, sessionVars>>

\* connect() rejected or the event sequence threw
HookCatch ==
  /\ \/ hook = "connecting" /\ pc = "rejected"
     \/ hook = "iterating" /\ gen = "threw"
  /\ HookCaught(error)
  /\ hook' = "finished"
  /\ UNCHANGED <<cancelled, handleReference, sessionVars>>

\* the callback abort of the hook
HookAbort ==
  /\ hook # "idle"
  /\ handleReference
  /\ Abort
  /\ UNCHANGED hookVars

\* the cleanup of the effect
HookCleanup ==
  /\ hook # "idle"
  /\ ~cancelled
  /\ cancelled' = TRUE
  /\ IF handleReference THEN Abort ELSE UNCHANGED sessionVars
  /\ UNCHANGED <<hook, streamStatus, hookResult, handleReference>>

InitHook ==
  /\ Constructed
  /\ NoRun
  /\ NoCall
  /\ hook = "idle"
  /\ streamStatus = "idle"
  /\ hookResult = NoResult
  /\ cancelled = FALSE
  /\ handleReference = FALSE
  /\ NoTools

NextHook ==
  \/ HookRun /\ UNCHANGED <<runVars, callVars, toolVars>>
  \/ HookConnected /\ UNCHANGED <<runVars, callVars, toolVars>>
  \/ HookEvent /\ UNCHANGED <<runVars, callVars, toolVars>>
  \/ HookDone /\ UNCHANGED <<runVars, callVars, toolVars>>
  \/ HookCatch /\ UNCHANGED <<runVars, callVars, toolVars>>
  \/ HookAbort /\ UNCHANGED <<runVars, callVars, toolVars>>
  \/ HookCleanup /\ UNCHANGED <<runVars, callVars, toolVars>>
  \/ PostHeaders /\ UNCHANGED <<runVars, callVars, hookVars, toolVars>>
  \/ PostFails /\ UNCHANGED <<runVars, callVars, hookVars, toolVars>>
  \/ PostErrorBody /\ UNCHANGED <<runVars, callVars, hookVars, toolVars>>
  \/ ConnectTimeout /\ UNCHANGED <<runVars, callVars, hookVars, toolVars>>
  \/ HandshakeBody /\ UNCHANGED <<runVars, callVars, hookVars, toolVars>>
  \/ HandshakeFails /\ UNCHANGED <<runVars, callVars, hookVars, toolVars>>
  \/ GetHeaders /\ UNCHANGED <<runVars, callVars, hookVars, toolVars>>
  \/ GetFails /\ UNCHANGED <<runVars, callVars, hookVars, toolVars>>
  \/ GetErrorBody /\ UNCHANGED <<runVars, callVars, hookVars, toolVars>>
  \/ GetTimeout /\ UNCHANGED <<runVars, callVars, hookVars, toolVars>>
  \/ ReadSettle /\ UNCHANGED <<runVars, callVars, hookVars, toolVars>>
  \/ Arrive /\ UNCHANGED <<runVars, callVars, hookVars, toolVars>>
  \/ Close /\ UNCHANGED <<runVars, callVars, hookVars, toolVars>>
  \/ BodyFails /\ UNCHANGED <<runVars, callVars, hookVars, toolVars>>
  \/ IdleTimeout /\ UNCHANGED <<runVars, callVars, hookVars, toolVars>>
  \/ Tick /\ UNCHANGED <<runVars, callVars, hookVars, toolVars>>

SpecHook == InitHook /\ [][NextHook]_vars

(***************************************************************************)
(* What a stream decodes to, line by line                                  *)
(***************************************************************************)
IsPrefix(a, b) == Len(a) <= Len(b) /\ SubSeq(b, 1, Len(a)) = a

\* the lines of all the bytes of a stream, the last one unterminated
LinesOf(bytes) == Split(Utf8Decode(<<>>, bytes, <<>>).text)

EventOrNone(event) == IF event = Undefined THEN <<>> ELSE <<event>>

\* the events, none or one, of one line taken alone
LineEvents(m, line) ==
  IF ~StartsWith(line, DataPrefix) THEN <<>>
  ELSE IF m = "distributed"
       THEN IF Slice(line, 6) = STREAM_DONE_MARKER
            THEN <<Event(JStr(StrDone), Undefined)>>
            ELSE EventOrNone(parseDistributedEvent(Slice(line, 6)))
  ELSE EventOrNone(parseEvent(Slice(line, 6)))

RECURSIVE AllLineEvents(_, _, _)
AllLineEvents(m, lines, i) ==
  IF i > Len(lines) THEN <<>>
  ELSE LineEvents(m, lines[i]) \o AllLineEvents(m, lines, i + 1)

\* the events before the first one of type done
RECURSIVE UpToDone(_)
UpToDone(events) ==
  IF events = <<>> \/ IsDone(Head(events)) THEN <<>>
  ELSE <<Head(events)>> \o UpToDone(Tail(events))

\* the events of the lines, in order; a distributed stream stops at done
ExpectedOfLines(m, lines) ==
  IF m = "distributed" THEN UpToDone(AllLineEvents(m, lines, 1))
  ELSE AllLineEvents(m, lines, 1)

Expected(m, bytes) == ExpectedOfLines(m, LinesOf(bytes))

\* C1: in both modes, however the bytes of the stream are cut into chunks,
\* the events handed to the consumer are at any moment the first events of
\* the line-by-line decoding of all the bytes (every terminated data line
\* and a last unterminated one, in order) and, when the sequence has ended,
\* all of them; a distributed stream's decoding stops at its done marker.
C1_ChunkingDoesNotMatter ==
  /\ IsPrefix(yielded, Expected(mode, stream))
  /\ gen = "ended" => yielded = Expected(mode, stream)

\* a chunk ended inside a character of the second line after the event of
\* the first line was handed over
C1_Witness ==
  /\ mode = "distributed"
  /\ gen = "yielding"
  /\ Len(yielded) = 1
  /\ buffer # <<>>
  /\ pending # <<>>

\* a data line whose payload is no JSON text and is not the done marker of
\* a distributed stream
IsBadLine(m, line) ==
  /\ StartsWith(line, DataPrefix)
  /\ ~JSONParse(Slice(line, 6)).ok
  /\ ~(m = "distributed" /\ Slice(line, 6) = STREAM_DONE_MARKER)

GoodLines(m, lines) == SelectSeq(lines, LAMBDA l : ~IsBadLine(m, l))

\* C10: in both modes no line makes the event sequence throw, and a data
\* line whose payload is not valid JSON yields nothing and takes nothing
\* away: the events of a stream are those of the stream without these lines.
C10_BadLinesAreSkipped ==
  /\ gen # "threw"
  /\ error = NoError
  /\ gen = "ended" =>
       yielded = ExpectedOfLines(mode, GoodLines(mode, LinesOf(stream)))

\* the event of the line after a line that is not JSON was handed over
C10_Witness ==
  /\ stream = LineBad \o NL \o LineMsg \o NL
  /\ gen = "ended"
  /\ Len(yielded) = 1

(***************************************************************************)
(* Properties of the session                                               *)
(***************************************************************************)
\* C2: in distributed mode no event of type done is ever handed to the
\* consumer, the events handed over never go past the first done marker or
\* done event of the stream, whichever chunk the following lines come in,
\* and a sequence that met it has ended without an error.
C2_DoneEndsSequence ==
  mode = "distributed" =>
    /\ \A i \in 1 .. Len(yielded) : ~IsDone(yielded[i])
    /\ IsPrefix(yielded,
                UpToDone(AllLineEvents("distributed", LinesOf(stream), 1)))
    /\ endReason = "done" => gen = "ended" /\ error = NoError

\* the sequence ended at a done marker that had an event line after it
C2_Witness ==
  /\ mode = "distributed"
  /\ endReason = "done"
  /\ Len(yielded) = 1
  /\ Len(AllLineEvents("distributed", LinesOf(stream), 1)) = 3

\* the body of the 202 answer was read and isDistributedResponse accepts it
HandshakeAccepted ==
  /\ rawText.ok
  /\ JSONParse(rawText.text).ok
  /\ isDistributedResponse(JSONParse(rawText.text).val)

\* C3: a connect() call issues the POST and then at most one GET, one
\* exchange at a time; the GET is issued only when the POST was answered
\* 202 with a body that isDistributedResponse accepts, and at a moment the
\* abort signal is not set.
C3_GetOnlyAfterAccepted202 ==
  /\ [](/\ requests \in {<<>>, <<"POST">>, <<"POST", "GET">>}
        /\ Cardinality(open) <= 1
        /\ Len(requests) = 2 => status[1] = 202 /\ HandshakeAccepted)
  /\ [][Len(requests') > Len(requests) /\ Len(requests) = 1
          => ~aborted /\ ~aborted' /\ open = {"POST"} /\ open' = {"GET"}]_vars

\* the GET was issued and answered with a stream
C3_Witness ==
  /\ requests = <<"POST", "GET">>
  /\ pc = "handle"
  /\ mode = "distributed"

\* C4: when the body of the 202 answer is not valid JSON or is not a
\* well-formed distributed response, connect() has rejected with a
\* MalformedDistributedResponse and the POST is the only request issued.
C4_MalformedHandshakeRejected ==
  (rawText.ok /\ ~HandshakeAccepted) =>
    /\ pc = "rejected"
    /\ error.name = "MalformedDistributedResponse"
    /\ requests = <<"POST">>
    /\ open = {}

\* the 202 answer carried `not json`
C4_Witness ==
  /\ rawText = Text(HandshakeNotJson)
  /\ pc = "rejected"

\* a step in which the generator of a distributed stream reads a chunk
ChunkRead ==
  /\ mode = "distributed"
  /\ queue # <<>>
  /\ queue' = Tail(queue)
  /\ bodyState' # "errored"

\* a step in which the callback of the idle timer runs
IdleFires ==
  /\ idleTimeoutId = 0
  /\ idleTimeoutId' = -1
  /\ fired' # fired

\* C5: while a read of a distributed stream is pending the idle timer is the
\* one armed timer and shows at most the idle window; every chunk read
\* restarts it at the full window; when it fires the signal is set and a
\* pending read fails with the AbortError.
C5_IdleTimeoutAborts ==
  /\ [](mode = "distributed" /\ gen = "reading" /\ ~ReadReady
          => /\ idleTimeoutId \in 0 .. streamIdleTimeoutMs
             /\ timeoutId = -1
             /\ connectionTimeoutId = -1)
  /\ [][ChunkRead /\ gen' \in {"reading", "yielding"}
          => idleTimeoutId' = streamIdleTimeoutMs]_vars
  /\ [][IdleFires
          => /\ aborted'
             /\ gen = "reading" => bodyState' = "errored" /\ ReadReady']_vars
  /\ [][gen = "reading" /\ bodyState = "errored" /\ bodyErr = "idle"
        /\ gen' # gen
          => gen' = "threw" /\ error'.name = "AbortError"]_vars

\* the idle timer fired on a pending read after an event had come through,
\* the timer of the GET having been cleared
C5_Witness ==
  /\ <<"idleTimeoutId", "handle", "reading">> \in fired
  /\ gen = "threw"
  /\ endReason = "idle"
  /\ Len(yielded) >= 1
  /\ abortCalls = 0

\* C6: a connection timer fires only while the headers of the POST or of
\* the GET are awaited, and connect() then rejects with the AbortError,
\* which classifyError maps to TIMEOUT with the exit code 4.
C6_TimerFiresOnlyBeforeHeaders ==
  \A f \in fired :
    f[1] \in {"timeoutId", "connectionTimeoutId"} =>
      /\ f[2] \in {"awaitPost", "awaitGet"}
      /\ pc = "rejected"
      /\ error.name = "AbortError"
      /\ ClassifyCaught(error).code = "TIMEOUT"
      /\ ClassifyCaught(error).exitCode = 4

\* C7: a call of abort() after the first changes nothing; whenever the
\* signal is set a pending read is ready to settle, and it settles in the
\* next step.
C7_AbortIdempotent ==
  /\ [](aborted /\ gen = "reading" => ReadReady)
  /\ [][abortCalls' # abortCalls /\ aborted
          => UNCHANGED <<connVars, timerVars, bodyVars, genVars,
                         aborted>>]_vars
  /\ [][aborted /\ gen = "reading" => gen' # "reading"]_vars

\* abort() was called twice, first while a read was pending, and the read
\* has settled
C7_Witness ==
  /\ abortCalls = 2
  /\ abortAt = "reading"
  /\ gen = "threw"

\* C8: after abort() was called while a read was in flight, the event
\* sequence ends without an exception.
C8_AbortEndsNormally ==
  abortAt = "reading" => gen # "threw" /\ error = NoError

\* C9: at most one reader is ever held; it is held from the first pull to
\* the end of the sequence and released exactly once when the sequence
\* ends, however it ends.
C9_ReaderReleasedOnce ==
  /\ readers \in {0, 1}
  /\ acquired <= 1
  /\ gen \in {"none", "notStarted"}
       => readers = 0 /\ acquired = 0 /\ released = 0
  /\ gen \in {"reading", "yielding"}
       => readers = 1 /\ acquired = 1 /\ released = 0
  /\ gen \in {"ended", "threw"}
       => readers = 0 /\ acquired = 1 /\ released = 1

\* the consumer left its loop early and the lock was released
C9_Witness ==
  /\ gen = "ended"
  /\ endReason = "return"
  /\ released = 1
  /\ readers = 0

(***************************************************************************)
(* Properties of the decoders, the type guard and the classifier           *)
(***************************************************************************)
\* the text is valid JSON and is not an array of two elements
IsWrongShape(data) ==
  /\ JSONParse(data).ok
  /\ ~(JSONParse(data).val.t = "arr" /\ Len(JSONParse(data).val.a) = 2)

\* C11: in both modes a data line whose payload is valid JSON and is not
\* an array of two elements yields no event and raises no exception.
C11_WrongShapeYieldsNoEvent ==
  (fn = "decode" /\ IsWrongShape(arg.data)) =>
    ret = Extracted(<<>>, <<>>)

\* C12: in both modes the line that encodes [t, p] decodes to exactly one
\* event, of type t and with a payload equal to p, whatever the tag t.
C12_RoundTrip ==
  fn = "roundTrip" =>
    ret = Extracted(<<Event(JStr(arg.t), arg.p)>>, <<>>)

\* a tag outside the union, with a payload that needs escapes, came back
\* from the distributed decoder
C12_Witness ==
  /\ fn = "roundTrip"
  /\ arg.mode = "distributed"
  /\ arg.t = <<"c", "u", "s", "t", "o", "m">>
  /\ arg.p = JStr(<<"a", "\"", "\\", "\n", "b">>)
  /\ Len(ret.parsed) = 1

\* x is an object whose `distributed` is true and whose `thread_id` is a
\* string of 1 to 256 characters
IsWellFormedResponse(x) ==
  /\ x.t = "obj"
  /\ KeyDistributed \in DOMAIN x.o
  /\ x.o[KeyDistributed] = JBool(TRUE)
  /\ KeyThreadId \in DOMAIN x.o
  /\ x.o[KeyThreadId].t = "str"
  /\ Len(x.o[KeyThreadId].s) >= 1
  /\ Len(x.o[KeyThreadId].s) <= 256

\* C14: isDistributedResponse(x) is true exactly when x is an object whose
\* `distributed` is true and whose `thread_id` is a string of 1 to 256
\* characters.
C14_GuardIffWellFormed ==
  fn = "isDistributedResponse" => (ret <=> IsWellFormedResponse(arg.x))

\* a thread_id of exactly 256 characters was accepted
C14_Witness ==
  /\ fn = "isDistributedResponse"
  /\ arg.x = ResponseOf(JBool(TRUE), JStr(StringOfLength(256)))
  /\ ret = TRUE

\* C15: with the status 401 or 403 the code is AUTH_FAILED, with 429
\* RATE_LIMITED and with a status of 500 or more SERVER_ERROR, whatever the
\* error and its message.
C15_StatusCodeWins ==
  fn = "classifyError" =>
    /\ arg.statusCode \in {401, 403} => ret.code = "AUTH_FAILED"
    /\ arg.statusCode = 429 => ret.code = "RATE_LIMITED"
    /\ arg.statusCode >= 500 => ret.code = "SERVER_ERROR"

\* an Error whose message says timeout was classified with the status 401
C15_Witness ==
  /\ fn = "classifyError"
  /\ arg.statusCode = 401
  /\ arg.e = Err("Error", -1, "none", JStr(<<"R", "e", "q", "u", "e", "s", "t", " ", "t", "i", "m", "e", "o", "u", "t">>))
  /\ ret.code = "AUTH_FAILED"

\* the rows of the classification table: exit code and recoverable by code
TableRow(code) ==
  CASE code = "AUTH_FAILED" -> <<2, FALSE>>
    [] code = "RATE_LIMITED" -> <<3, TRUE>>
    [] code = "SERVER_ERROR" -> <<5, TRUE>>
    [] code = "NETWORK_ERROR" -> <<1, FALSE>>
    [] code = "TIMEOUT" -> <<4, TRUE>>
    [] code = "STREAM_INTERRUPTED" -> <<1, FALSE>>

ErrorCodes ==
  {"AUTH_FAILED", "RATE_LIMITED", "SERVER_ERROR", "NETWORK_ERROR",
   "TIMEOUT", "STREAM_INTERRUPTED"}

\* C16: classifyError returns, for every thrown value and status code, one
\* of the six codes with the exit code and the recoverable flag of its row.
C16_ResultIsTableRow ==
  fn = "classifyError" =>
    /\ ret.code \in ErrorCodes
    /\ <<ret.exitCode, ret.recoverable>> = TableRow(ret.code)
    /\ ret.message \in Seq(STRING)

\* a value that is no Error was classified with a status that matches no
\* row
C16_Witness ==
  /\ fn = "classifyError"
  /\ ~IsError(arg.e)
  /\ arg.statusCode = 404
  /\ ret.code = "STREAM_INTERRUPTED"

\* the lower-cased message of an Error holds one of the markers
HasMarker(e, markers) ==
  \E k \in markers : Includes(ToLowerCase(e.message.s), k)

RateLimitMarkers == {<<"4", "2", "9">>, <<"r", "a", "t", "e", " ", "l", "i", "m", "i", "t">>}
ServerMarkers == {<<"5", "0", "0">>, <<"5", "0", "2">>, <<"5", "0", "3">>}
NetworkMarkers ==
  {<<"f", "e", "t", "c", "h", " ", "f", "a", "i", "l", "e", "d">>, <<"e", "c", "o", "n", "n", "r", "e", "f", "u", "s", "e", "d">>, <<"n", "e", "t", "w", "o", "r", "k">>, <<"e", "n", "o", "t", "f", "o", "u", "n", "d">>}
TimeoutMarkers == {<<"t", "i", "m", "e", "o", "u", "t">>}
AbortMarkers == {<<"a", "b", "o", "r", "t", "e", "d">>}
AuthMarkers == {<<"4", "0", "1">>, <<"u", "n", "a", "u", "t", "h", "o", "r", "i", "z", "e", "d">>}

\* no row of the table is selected by the status code
NoMatchingStatus(statusCode) ==
  statusCode \notin {401, 403, 429} /\ statusCode < 500

\* an Error that is a cancellation: the AbortError, or a message saying so
IsAbort(e) == e.name = "AbortError" \/ HasMarker(e, AbortMarkers)

\* what the default row returns for the thrown value e
IsDefaultRow(e, r) ==
  /\ r.code = "STREAM_INTERRUPTED"
  /\ r.exitCode = 1
  /\ r.recoverable = FALSE
  /\ r.message = IF IsError(e) THEN e.message.s ELSE MsgUnknown

FieldOfBody(body, key) ==
  IF body.ok /\ JSONParse(body.text).ok /\ JSONParse(body.text).val.t = "obj"
     /\ key \in DOMAIN JSONParse(body.text).val.o
     /\ JSONParse(body.text).val.o[key] # JNull
  THEN JSONParse(body.text).val.o[key]
  ELSE Undefined

\* the POST was answered with a status that is neither 2xx nor 202
PostFailed == Len(status) >= 1 /\ ~Ok(status[1]) /\ status[1] # 202

\* C18: when the POST is answered with a status that is neither 2xx nor
\* 202, connect() issues no further request and rejects with a
\* StreamConnectionError of that status whose message is the `detail` of
\* the body, else its `error`, else `HTTP <status>`; the status 401 is
\* classified AUTH_FAILED with the exit code 2.
C18_PostFailureMessage ==
  PostFailed =>
    /\ pc \in {"readErrorBody", "rejected"}
    /\ requests = <<"POST">>
    /\ pc = "rejected" =>
         /\ error.name = "StreamConnectionError"
         /\ error.statusCode = status[1]
         /\ error.message =
              IF FieldOfBody(errorText, KeyDetail) # Undefined
              THEN FieldOfBody(errorText, KeyDetail)
              ELSE IF FieldOfBody(errorText, KeyError) # Undefined
              THEN FieldOfBody(errorText, KeyError)
              ELSE JStr(<<"H", "T", "T", "P", " ">> \o NumToStr(status[1]))
         /\ status[1] = 401 =>
              /\ ClassifyCaught(error).code = "AUTH_FAILED"
              /\ ClassifyCaught(error).exitCode = 2

\* the answer 401 with a body holding both fields was turned into the
\* error of its `detail`
C18_Witness ==
  /\ pc = "rejected"
  /\ status = <<401>>
  /\ errorText = Text(ErrorBodyTwo)
  /\ error.message = JStr(<<"b", "a", "d", " ", "k", "e", "y">>)



(***************************************************************************)
(* Properties of a run of the JSON mode                                    *)
(***************************************************************************)
\* the text a record of the given type starts with
RecordStart(type) ==
  <<"{">> \o Quote(KeyType) \o <<":">> \o Quote(type)

\* the written line is a record of the given type
IsRecord(line, type) ==
  /\ StartsWith(line, RecordStart(type) \o <<",">>)
  /\ EndsWith(line, <<"}">> \o NL)
IsTerminal(line) == IsRecord(line, StrDone) \/ IsRecord(line, StrError)

\* the written line is an error record with the code c
IsErrorRecord(line, c) ==
  /\ IsRecord(line, StrError)
  /\ StartsWith(line, RecordStart(StrError) \o <<",">> \o Quote(KeyCode)
                        \o <<":">> \o Quote(CodeText(c)) \o <<",">>)

\* the payload of an event does not have the shape of its tag
WrongPayload(event) ==
  \/ event.type = JStr(StrMessages) /\ event.payload.t # "arr"
  \/ event.type = JStr(StrValues) /\ event.payload.t # "obj"
  \/ event.type = JStr(StrError) /\ event.payload.t # "obj"

\* a data line that is no JSON text or whose event has a payload of the
\* wrong shape
IsMalformedLine(m, line) ==
  \/ IsBadLine(m, line)
  \/ \E i \in 1 .. Len(LineEvents(m, line)) :
       WrongPayload(LineEvents(m, line)[i])

WellFormedLines(m, lines) ==
  SelectSeq(lines, LAMBDA l : ~IsMalformedLine(m, l))

\* the positions of the line feeds of a stream and the n-th of them
LineFeeds(bytes) == {i \in 1 .. Len(bytes) : bytes[i] = "\n"}
LineFeed(bytes, n) ==
  IF n = 0 THEN 0
  ELSE CHOOSE i \in LineFeeds(bytes) :
         Cardinality({j \in LineFeeds(bytes) : j <= i}) = n

\* the lines of a stream of a run: every line of such a stream is
\* terminated and holds bytes below 80 only, which are their own text
TerminatedLines(bytes) ==
  [n \in 1 .. Cardinality(LineFeeds(bytes)) |->
     SubSeq(bytes, LineFeed(bytes, n - 1) + 1, LineFeed(bytes, n) - 1)]

\* the line of a chunk record for the payload of a messages event, if any
ChunkLines(payload) ==
  IF Truthy(extractContent(FirstContent(payload)))
  THEN <<StringifyLiteral(FormatterChunk(
                         extractContent(FirstContent(payload)))) \o NL>>
  ELSE <<>>

\* what a run writes for events whose payloads have the shape of their
\* tags: a chunk for the text of every messages event, and at the end the
\* record of the first error event or, without one, the done record of the
\* last values event
RECURSIVE RecordsFor(_, _)
RecordsFor(events, final) ==
  IF events = <<>>
  THEN <<StringifyLiteral(FormatterDone(
           IF final = Undefined THEN ObjectOf(KeyMessages, JArr(<<>>))
           ELSE final)) \o NL>>
  ELSE IF Head(events).type = JStr(StrError)
  THEN <<StringifyLiteral(FormatterError(CodeText("SERVER_ERROR"),
           Get(Head(events).payload, KeyMessage))) \o NL>>
  ELSE IF Head(events).type = JStr(StrValues)
  THEN RecordsFor(Tail(events), Head(events).payload)
  ELSE IF Head(events).type = JStr(StrMessages)
  THEN ChunkLines(Head(events).payload) \o RecordsFor(Tail(events), final)
  ELSE RecordsFor(Tail(events), final)

\* the run is over and nothing failed below it: the connection was made,
\* the body did not break and no timer fired
RunUndisturbed ==
  /\ run = "finished"
  /\ pc = "handle"
  /\ bodyErr = "none"
  /\ fired = {}

\* C13: the records of an undisturbed run are those of the stream without
\* its malformed lines: a data line that is invalid JSON or whose payload
\* has the wrong shape for its tag changes neither the chunk records nor
\* the terminal record.
C13_MalformedLinesChangeNothing ==
  RunUndisturbed =>
    records = RecordsFor(
                ExpectedOfLines(mode,
                                WellFormedLines(mode,
                                                TerminatedLines(stream))),
                Undefined)

\* C19: a run writes chunk records and then, when it is over and not
\* before, exactly one terminal record, done or error, as its last record;
\* the exit code is set with it, is 0 exactly when that record is done, and
\* is otherwise the exit code of the row of the error record's code.
C19_OneTerminalRecord ==
  /\ \A i \in 1 .. Len(records) :
       /\ IsTerminal(records[i]) <=> (i = Len(records) /\ run = "finished")
       /\ ~IsTerminal(records[i]) => IsRecord(records[i], StrChunk)
       /\ ~(IsRecord(records[i], StrDone) /\ IsRecord(records[i], StrError))
  /\ run = "finished" => records # <<>>
  /\ run # "finished" => processExitCode = -1
  /\ run = "finished" =>
       /\ processExitCode = 0 <=> IsRecord(Last(records), StrDone)
       /\ IsRecord(Last(records), StrError) =>
            \E c \in ErrorCodes :
              /\ IsErrorRecord(Last(records), c)
              /\ processExitCode = TableRow(c)[1]

\* a run wrote a chunk and ended at an error event that had a line after it
C19_Witness ==
  /\ run = "finished"
  /\ stream = LineChunk \o NL \o LineError \o NL
  /\ Len(records) = 2
  /\ IsRecord(records[1], StrChunk)
  /\ IsErrorRecord(records[2], "SERVER_ERROR")
  /\ processExitCode = 5

\* the values events among the events
ValuesEvents(events) ==
  SelectSeq(events, LAMBDA e : e.type = JStr(StrValues))

\* C20: the response of the done record is the payload of the last values
\* event received, and {messages: []} when none was received.
C20_LastValuesWin ==
  (run = "finished" /\ IsRecord(Last(records), StrDone)) =>
    Last(records) =
      StringifyLiteral(FormatterDone(
        IF ValuesEvents(yielded) = <<>>
        THEN ObjectOf(KeyMessages, JArr(<<>>))
        ELSE Last(ValuesEvents(yielded)).payload)) \o NL



(***************************************************************************)
(* Properties of the event sequence and its timers                         *)
(***************************************************************************)
\* C21: at every moment the generator holds at most one decoded event that
\* it has not handed to the consumer.
C21_AtMostOneEventHeld == Len(parsed) <= 1



(***************************************************************************)
(* Properties of the text extraction                                       *)
(***************************************************************************)
\* what the rule gives for a content: a string is itself, a list whose
\* first block has the type text gives the text of that block (as it is or
\* as a string), everything else is empty
FirstBlockIsText(content) ==
  /\ content.t = "arr"
  /\ Len(content.a) >= 1
  /\ IsTextItem(content.a[1])

FollowsRule(content, text) ==
  IF content.t = "str" THEN text = content
  ELSE IF FirstBlockIsText(content)
  THEN text \in {content.a[1].o[KeyText],
                 JStr(StringOf(content.a[1].o[KeyText]))}
  ELSE text \in {Undefined, JStr(<<>>)}

\* C22: extractContent and extractContentFromPayload return, for every
\* content, the string itself, or the text of the first block when that
\* block has the type text, and nothing in every other case.
C22_ExtractionFollowsRule ==
  /\ fn = "extractContent" => FollowsRule(arg.content, ret)
  /\ fn = "extractContentFromPayload" =>
       FollowsRule(Get(arg.payload, KeyContent), ret)



(***************************************************************************)
(* Properties of the failures of a distributed stream                      *)
(***************************************************************************)
\* the GET was answered with a status that is not OK or without a body
GetRefused ==
  /\ Len(status) = 2
  /\ ~Ok(status[2]) \/ NullBody(status[2])

\* the read of the body of the GET failed with the connection
StreamReadFailed ==
  /\ mode = "distributed"
  /\ gen = "threw"
  /\ endReason = "network"

\* C23: in distributed mode a GET that is refused is raised as a
\* DistributedStreamError of the phase handshake, and a failure of the
\* read of its body as a DistributedStreamError of the phase streaming.
C23_FailuresTaggedWithPhase ==
  /\ (GetRefused /\ pc = "rejected") =>
       error.name = "DistributedStreamError" /\ error.phase = "handshake"
  /\ StreamReadFailed =>
       error.name = "DistributedStreamError" /\ error.phase = "streaming"



(***************************************************************************)
(* Properties of the hook useStream                                        *)
(***************************************************************************)
\* the steps the status of one request can take
StatusSteps ==
  {<<"idle", "connecting">>, <<"connecting", "streaming">>,
   <<"connecting", "error">>, <<"streaming", "done">>,
   <<"streaming", "error">>}

\* C24: for one request the status only moves forward: from connecting to
\* streaming and from there to done or to error, or from connecting to
\* error; so error never becomes done, and done and error never change
C24_StatusMovesForward ==
  [][streamStatus' # streamStatus
       => <<streamStatus, streamStatus'>> \in StatusSteps]_vars

\* the status is error after an event of the type error was taken
C24_Witness ==
  /\ hook = "finished"
  /\ streamStatus = "error"
  /\ yielded # <<>>
  /\ Last(yielded).type = JStr(StrError)
  /\ ~IsNullish(Last(yielded).payload)


(***************************************************************************)
(* Properties of truncate                                                  *)
(***************************************************************************)
\* the options of a call of truncate, with the defaults filled in
GivenMaxLength == OptionNum(arg.options.maxLength, defaults.maxLength)
GivenMaxLines == OptionNum(arg.options.maxLines, defaults.maxLines)
GivenIndicator == OptionStr(arg.options.indicator, defaults.indicator)

\* the text by lines first and by characters after that
LinesThenLength ==
  IF Len(truncateByLines(arg.input, GivenMaxLines, GivenIndicator).text)
       > GivenMaxLength
  THEN truncateByLength(
         truncateByLines(arg.input, GivenMaxLines, GivenIndicator).text,
         GivenMaxLength, GivenIndicator).text
  ELSE truncateByLines(arg.input, GivenMaxLines, GivenIndicator).text

\* C25: when maxLength is at least the length of the indicator, truncate
\* returns a text of at most maxLength characters, truncated by lines
\* first and by characters after that; a text reported as truncated ends
\* with the indicator and a text not reported as truncated is the input.
C25_TruncateWithinLimits ==
  fn = "truncate" /\ GivenMaxLength >= Len(GivenIndicator) =>
    /\ Len(ret.text) <= GivenMaxLength
    /\ ret.text = LinesThenLength
    /\ ret.wasTruncated => EndsWith(ret.text, GivenIndicator)
    /\ ~ret.wasTruncated => ret.text = arg.input

\* a text truncated by lines and then by characters
C25_Witness ==
  /\ fn = "truncate"
  /\ GivenMaxLength >= Len(GivenIndicator)
  /\ Len(GivenIndicator) > 0
  /\ Len(Split(arg.input)) > GivenMaxLines
  /\ Len(truncateByLines(arg.input, GivenMaxLines, GivenIndicator).text)
       > GivenMaxLength
  /\ ret.wasTruncated
  /\ Len(ret.text) = GivenMaxLength


(***************************************************************************)
(* Properties of the idle timeout and of the other timers                  *)
(***************************************************************************)
\* C26: the idle timer of a distributed stream fires only when the server
\* has delivered no chunk for a full idle window, however long the
\* consumer waits before it asks for the next event.
C26_IdleAbortOnlyAfterSilence ==
  [][IdleFires /\ mode = "distributed"
       => sinceChunk = streamIdleTimeoutMs]_vars


(***************************************************************************)
(* Properties of the classification of failures                            *)
(***************************************************************************)
\* the row of the table a status code selects
StatusCodeRow(st) ==
  IF st \in {401, 403} THEN "AUTH_FAILED"
  ELSE IF st = 429 THEN "RATE_LIMITED"
  ELSE IF st >= 500 THEN "SERVER_ERROR"
  ELSE "none"

\* the run has ended after the connection with the given number returned a
\* failure status of one of the rows
EndedOnStatus(connection) ==
  /\ run = "finished"
  /\ Len(status) = connection
  /\ StatusCodeRow(Last(status)) # "none"

\* the last record and the exit code are those of the row of the status
StatusRowReported ==
  /\ IsErrorRecord(Last(records), StatusCodeRow(Last(status)))
  /\ processExitCode = TableRow(StatusCodeRow(Last(status)))[1]

\* C27: in the JSON mode a failure status of the POST or of the GET to the
\* thread stream decides the code of the error record and the exit code,
\* whatever the body of the answer says.
C27_StatusDecidesCode ==
  EndedOnStatus(1) \/ EndedOnStatus(2) => StatusRowReported


\* the rows of the table whose markers the message of e holds
MatchingRows(e) ==
  {r \in {"RATE_LIMITED", "SERVER_ERROR", "NETWORK_ERROR", "TIMEOUT"} :
     \/ r = "RATE_LIMITED" /\ HasMarker(e, RateLimitMarkers)
     \/ r = "SERVER_ERROR" /\ HasMarker(e, ServerMarkers)
     \/ r = "NETWORK_ERROR" /\ HasMarker(e, NetworkMarkers)
     \/ r = "TIMEOUT" /\ (IsAbort(e) \/ HasMarker(e, TimeoutMarkers))}

\* the first of the matching rows in the order of the table
FirstRowOf(rows) ==
  IF "RATE_LIMITED" \in rows THEN "RATE_LIMITED"
  ELSE IF "SERVER_ERROR" \in rows THEN "SERVER_ERROR"
  ELSE IF "NETWORK_ERROR" \in rows THEN "NETWORK_ERROR"
  ELSE "TIMEOUT"

\* C28: with no status code, an Error whose message holds the markers of
\* more than one row is classified by the row that comes first in the
\* table: rate limit, then 5xx, then network failure, then abort/timeout.
C28_FirstRowWins ==
  (/\ fn = "classifyError"
   /\ arg.statusCode = -1
   /\ IsError(arg.e)
   /\ ~HasMarker(arg.e, AuthMarkers)
   /\ Cardinality(MatchingRows(arg.e)) > 1)
    => ret.code = FirstRowOf(MatchingRows(arg.e))


\* the timers that are armed
ArmedTimers ==
  {t \in {"timeoutId", "connectionTimeoutId", "idleTimeoutId"} :
     \/ t = "timeoutId" /\ timeoutId >= 0
     \/ t = "connectionTimeoutId" /\ connectionTimeoutId >= 0
     \/ t = "idleTimeoutId" /\ idleTimeoutId >= 0}

\* C29: at most one timer is armed at any time; once connect() has returned
\* the handle no connection timer is armed; after connect() has rejected or
\* the event sequence has ended or thrown no timer is armed.
C29_TimersCancelled ==
  /\ Cardinality(ArmedTimers) <= 1
  /\ pc = "handle" => ArmedTimers \subseteq {"idleTimeoutId"}
  /\ pc = "rejected" \/ gen \in {"ended", "threw"} => ArmedTimers = {}

\* the event sequence of a distributed stream ended at the consumer's
\* return after its idle timer had been armed, and no timer is left
C29_Witness ==
  /\ mode = "distributed"
  /\ gen = "ended"
  /\ endReason = "return"
  /\ acquired = 1
  /\ ArmedTimers = {}


(***************************************************************************)
(* Termination of connect(): the session with timers that fire when they   *)
(* are due, and a server that may stop sending at any point                *)
(***************************************************************************)
\* the clock moves on while a timer is armed, and a timer that is due fires
TimersRun ==
  /\ Tick \/ ConnectTimeout \/ GetTimeout \/ IdleTimeout
  /\ UNCHANGED <<runVars, callVars, hookVars, toolVars>>

SpecLive == Init /\ [][Next]_vars /\ WF_vars(TimersRun)

\* C30: every connect() call settles in the end: it returns the handle or
\* it rejects, whenever the server stops sending.
C30_ConnectSettles ==
  pc = "awaitPost" ~> pc \in {"handle", "rejected"}


(***************************************************************************)
(* Properties of the handle after abort()                                  *)
(***************************************************************************)
\* C31: once abort() has been called on the handle its event sequence
\* yields no further event, also not one that was decoded from an earlier
\* chunk and was waiting to be delivered.
C31_NoEventAfterAbort ==
  [][abortCalls > 0 => yielded' = yielded]_vars


(***************************************************************************)
(* Properties of the hook after its cleanup                                *)
(***************************************************************************)
\* C32: once the cleanup of the effect has run (the request changed or the
\* component unmounted) the run it superseded changes neither the status
\* nor finalResponse, error or errorCode.
C32_SupersededRunIsSilent ==
  [][cancelled =>
       streamStatus' = streamStatus /\ hookResult' = hookResult]_vars



(***************************************************************************)
(* The hook useStream over several requests: each change of the request    *)
(* cleans up the effect of the old request and runs the effect again, and  *)
(* all runs share handleReference                                          *)
(***************************************************************************)
MaxRuns == 3

\* handle.abort() on the handle of run i, or on nothing: a run that is
\* reading its events ends in its catch block
AbortHandleOf(es, i) ==
  IF i = 0 THEN es
  ELSE [es EXCEPT ![i].aborted = TRUE,
                  ![i].at = IF @ = "streaming" THEN "finished" ELSE @]

\* the cleanup of the effect that ran last
CleanedUp(es) ==
  IF es = <<>> THEN es
  ELSE AbortHandleOf([es EXCEPT ![Len(es)].cancelled = TRUE], reference)

\* the effect of a run that was not cleaned up is in place, or none is
Mounted == IF effects = <<>> THEN TRUE ELSE ~Last(effects).cancelled

\* config or request changes: the cleanup of the old effect, then run()
EffectRuns ==
  /\ Len(effects) < MaxRuns
  /\ Mounted
  /\ effects' = Append(CleanedUp(effects),
                       [at |-> "connecting", cancelled |-> FALSE,
                        aborted |-> FALSE])
  /\ UNCHANGED <<reference, userAborts>>

\* the component unmounts
EffectUnmounts ==
  /\ effects # <<>>
  /\ Mounted
  /\ effects' = CleanedUp(effects)
  /\ UNCHANGED <<reference, userAborts>>

\* service.connect(request) of run i resolves
EffectConnected(i) ==
  /\ effects[i].at = "connecting"
  /\ reference' = i
  /\ effects' = IF effects[i].cancelled
                THEN [effects EXCEPT ![i].aborted = TRUE,
                                     ![i].at = "finished"]
                ELSE [effects EXCEPT ![i].at = "streaming"]
  /\ UNCHANGED userAborts

\* service.connect(request) of run i rejects, or its events end
EffectSettles(i) ==
  /\ effects[i].at \in {"connecting", "streaming"}
  /\ effects' = [effects EXCEPT ![i].at = "finished"]
  /\ UNCHANGED <<reference, userAborts>>

\* the callback abort
EffectAbort ==
  /\ effects # <<>>
  /\ userAborts < MaxAborts
  /\ userAborts' = userAborts + 1
  /\ effects' = AbortHandleOf(effects, reference)
  /\ UNCHANGED reference

restOfEffects == <<sessionVars, runVars, callVars, hookVars, consentVars,
                   tuiVars, bashVars, chatVars>>

NextEffects ==
  \/ EffectRuns /\ UNCHANGED restOfEffects
  \/ EffectUnmounts /\ UNCHANGED restOfEffects
  \/ \E i \in 1..Len(effects) : EffectConnected(i) /\ UNCHANGED restOfEffects
  \/ \E i \in 1..Len(effects) : EffectSettles(i) /\ UNCHANGED restOfEffects
  \/ EffectAbort /\ UNCHANGED restOfEffects

SpecEffects == Init /\ [][NextEffects]_vars

\* C33: a call of the callback abort while the run started last is reading
\* its events aborts the handle of that run.
C33_AbortTargetsActiveRun ==
  [][IF userAborts' > userAborts
     THEN Last(effects).at = "streaming" => Last(effects').aborted
     ELSE TRUE]_vars



(***************************************************************************)
(* Validation of a bash command                                            *)
(***************************************************************************)
blockedCommands ==
  << <<"r", "m", " ", "-", "r", "f", " ", "/">>,
     <<"r", "m", " ", "-", "r", "f", " ", "/", "*">>,
     <<"r", "m", " ", "-", "r", "f", " ", "~">>,
     <<"r", "m", " ", "-", "r", "f", " ", "~", "/", "*">>,
     <<"r", "m", " ", "-", "r", "f", " ", ".">>,
     <<"r", "m", " ", "-", "r", "f", " ", ".", "/", "*">>,
     <<"r", "m", " ", "-", "r", "f", " ", "$", "H", "O", "M", "E">>,
     <<"r", "m", " ", "-", "r", "f", " ", "\"", "$", "H", "O", "M", "E", "\"">>,
     <<":", "(", ")", "{", " ", ":", "|", ":", "&", " ", "}", ";", ":">>,
     <<"f", "o", "r", "k", "(", ")">>,
     <<"c", "u", "r", "l", "|", "s", "h">>,
     <<"c", "u", "r", "l", "|", "b", "a", "s", "h">>,
     <<"w", "g", "e", "t", "|", "s", "h">>,
     <<"w", "g", "e", "t", "|", "b", "a", "s", "h">>,
     <<"c", "u", "r", "l", " ", "|", " ", "s", "h">>,
     <<"c", "u", "r", "l", " ", "|", " ", "b", "a", "s", "h">>,
     <<"w", "g", "e", "t", " ", "|", " ", "s", "h">>,
     <<"w", "g", "e", "t", " ", "|", " ", "b", "a", "s", "h">>,
     <<">", " ", "/", "d", "e", "v", "/", "s", "d", "a">>,
     <<">", " ", "/", "d", "e", "v", "/", "h", "d", "a">>,
     <<">", " ", "/", "d", "e", "v", "/", "n", "v", "m", "e">>,
     <<"d", "d", " ", "i", "f", "=", "/", "d", "e", "v", "/", "z", "e", "r", "o", " ", "o", "f", "=", "/", "d", "e", "v", "/", "s", "d", "a">>,
     <<"d", "d", " ", "i", "f", "=", "/", "d", "e", "v", "/", "z", "e", "r", "o", " ", "o", "f", "=", "/", "d", "e", "v", "/", "h", "d", "a">>,
     <<">", " ", "/", "e", "t", "c", "/", "p", "a", "s", "s", "w", "d">>,
     <<">", " ", "/", "e", "t", "c", "/", "s", "h", "a", "d", "o", "w">>,
     <<">", " ", "/", "e", "t", "c", "/", "s", "u", "d", "o", "e", "r", "s">>,
     <<"c", "h", "m", "o", "d", " ", "-", "R", " ", "7", "7", "7", " ", "/">>,
     <<"c", "h", "m", "o", "d", " ", "-", "R", " ", "7", "7", "7", " ", "/", "*">> >>

\* replace(/\s+/g, ' '): every run of white space becomes one space
RECURSIVE CollapseWhiteSpace(_, _)
CollapseWhiteSpace(s, inRun) ==
  IF s = <<>> THEN <<>>
  ELSE IF Head(s) \in WhiteSpace
       THEN (IF inRun THEN <<>> ELSE <<" ">>)
            \o CollapseWhiteSpace(Tail(s), TRUE)
       ELSE <<Head(s)>> \o CollapseWhiteSpace(Tail(s), FALSE)

normalizeCommand(command) ==
  ToLowerCase(Trim(CollapseWhiteSpace(command, FALSE)))

\* the pieces of the regular expressions: a word at a position, \w, \b,
\* a stretch matched by .* and a stretch matched by \s*
OccursAt(s, i, w) ==
  i >= 1 /\ i + Len(w) - 1 <= Len(s) /\ SubSeq(s, i, i + Len(w) - 1) = w
IsLowerLetter(c) == \E k \in 1 .. Len(LowerCase) : LowerCase[k] = c
IsWordChar(s, i) ==
  IF i < 1 \/ i > Len(s) THEN FALSE
  ELSE IsLowerLetter(LowerChar(s[i])) \/ s[i] \in Digits \/ s[i] = "_"
BoundaryAt(s, i) == IsWordChar(s, i - 1) # IsWordChar(s, i)
WordAt(s, i, w) ==
  OccursAt(s, i, w) /\ BoundaryAt(s, i) /\ BoundaryAt(s, i + Len(w))
AnyFrom(s, i, j) == \A k \in i .. (j - 1) : s[k] \notin {"\n", "\r"}
SpaceFrom(s, i, j) == \A k \in i .. (j - 1) : s[k] \in WhiteSpace

\* /:\(\)\s*{.*\|.*&\s*}.*:/
ForkBombPattern(s) ==
  \E i \in 1 .. Len(s) : \E q \in (i + 3) .. Len(s) :
    /\ OccursAt(s, i, <<":", "(", ")">>)
    /\ SpaceFrom(s, i + 3, q)
    /\ s[q] = "{"
    /\ \E p \in (q + 1) .. Len(s) : \E a \in (p + 1) .. Len(s) :
         \E b \in (a + 1) .. Len(s) : \E c \in (b + 1) .. Len(s) :
           /\ s[p] = "|" /\ s[a] = "&" /\ s[b] = "}" /\ s[c] = ":"
           /\ AnyFrom(s, q + 1, p)
           /\ AnyFrom(s, p + 1, a)
           /\ SpaceFrom(s, a + 1, b)
           /\ AnyFrom(s, b + 1, c)

\* /\b(curl|wget)\b.*\|\s*(sh|bash|zsh)/
PipeToShellPattern(s) ==
  \E i \in 1 .. Len(s) : \E w \in {<<"c", "u", "r", "l">>, <<"w", "g", "e", "t">>} :
    /\ WordAt(s, i, w)
    /\ \E p \in (i + Len(w)) .. Len(s) : \E q \in (p + 1) .. Len(s) :
         /\ s[p] = "|"
         /\ AnyFrom(s, i + Len(w), p)
         /\ SpaceFrom(s, p + 1, q)
         /\ \E sh \in {<<"s", "h">>, <<"b", "a", "s", "h">>, <<"z", "s", "h">>} : OccursAt(s, q, sh)

\* /\bdd\b.*of=\/dev\/[a-z]+/
DiskWritePattern(s) ==
  \E i \in 1 .. Len(s) :
    /\ WordAt(s, i, <<"d", "d">>)
    /\ \E p \in (i + 2) .. Len(s) :
         /\ AnyFrom(s, i + 2, p)
         /\ OccursAt(s, p, <<"o", "f", "=", "/", "d", "e", "v", "/">>)
         /\ p + 8 <= Len(s)
         /\ IsLowerLetter(s[p + 8])

NoMatch == <<>>
RECURSIVE FirstBlocked(_, _)
FirstBlocked(normalized, k) ==
  IF k > Len(blockedCommands) THEN NoMatch
  ELSE IF Includes(normalized, normalizeCommand(blockedCommands[k]))
       THEN blockedCommands[k]
       ELSE FirstBlocked(normalized, k + 1)

matchesBlockedPattern(command) ==
  IF FirstBlocked(normalizeCommand(command), 1) # NoMatch
  THEN FirstBlocked(normalizeCommand(command), 1)
  ELSE IF ForkBombPattern(command) THEN <<"f", "o", "r", "k", " ", "b", "o", "m", "b", " ", "p", "a", "t", "t", "e", "r", "n">>
  ELSE IF PipeToShellPattern(command) THEN <<"p", "i", "p", "e", " ", "t", "o", " ", "s", "h", "e", "l", "l", " ", "p", "a", "t", "t", "e", "r", "n">>
  ELSE IF DiskWritePattern(command) THEN <<"d", "i", "r", "e", "c", "t", " ", "d", "i", "s", "k", " ", "w", "r", "i", "t", "e">>
  ELSE NoMatch

\* validateCommand without the warnings
validateCommand(command) ==
  IF command = <<>> \/ Trim(command) = <<>>
  THEN [valid |-> FALSE, reason |-> <<"E", "m", "p", "t", "y", " ", "c", "o", "m", "m", "a", "n", "d">>]
  ELSE IF matchesBlockedPattern(command) # NoMatch
  THEN [valid |-> FALSE,
        reason |-> <<"B", "l", "o", "c", "k", "e", "d", ":", " ">> \o matchesBlockedPattern(command)]
  ELSE [valid |-> TRUE, reason |-> <<>>]

\* the commands a tool call can carry
Commands ==
  { <<>>, <<" ">>, <<"l", "s", " ", "-", "l", "a">>, <<"R", "M", " ", " ", "-", "r", "f", " ", "/">>, <<"C", "u", "r", "l", " ", "x", " ", "|", " ", " ", "s", "h">>,
    <<"c", "u", "r", "l", " ", "x", " ", "|", " ", "b", "a", "s", "h">>, <<"d", "d", " ", " ", "o", "f", "=", "/", "d", "e", "v", "/", "s", "d", "b">>, <<"D", "D", " ", "o", "f", "=", "/", "d", "e", "v", "/", "s", "d", "b">>,
    <<":", "(", ")", " ", "{", "a", "|", "b", "&", " ", "}", " ", ":">>, <<"e", "c", "h", "o", " ", "f", "o", "r", "k">>, <<"e", "c", "h", "o", " ", "\\", "\"", "a", "|", "b", "\\", "\"">> }



(***************************************************************************)
(* The hook useBashConsent: its state (without the risk and the warnings,  *)
(* which are only displayed) and its callbacks                             *)
(***************************************************************************)
ToolCallIds == {1, 2}
DenyReasons == {Undefined, JStr(<<"n", "o">>)}

Idle == [type |-> "idle"]

requestConsent(command, toolCallId) ==
  IF ~validateCommand(command).valid
  THEN [type |-> "blocked", command |-> command, toolCallId |-> toolCallId,
        reason |-> validateCommand(command).reason]
  ELSE [type |-> "pending", command |-> command, toolCallId |-> toolCallId]

\* approve() that takes any state with a command for a pending one
approve_AnyRequest(current) ==
  IF current.type = "idle" THEN current
  ELSE [type |-> "decided", command |-> current.command,
        toolCallId |-> current.toolCallId, response |-> "approved"]

approve(current) ==
  IF current.type # "pending" THEN current
  ELSE [type |-> "decided", command |-> current.command,
        toolCallId |-> current.toolCallId, response |-> "approved"]

deny(current, reason) ==
  IF current.type # "pending" THEN current
  ELSE [type |-> "decided", command |-> current.command,
        toolCallId |-> current.toolCallId, response |-> "denied",
        reason |-> reason]

reset == Idle

isPending == consentState.type = "pending"

\* the callbacks, called by any caller in any order
ConsentRequest(command, toolCallId) ==
  /\ consentState' = requestConsent(command, toolCallId)
  /\ called' = "requestConsent"

ConsentApprove ==
  /\ consentState' = approve(consentState)
  /\ called' = "approve"

ConsentDeny(reason) ==
  /\ consentState' = deny(consentState, reason)
  /\ called' = "deny"

ConsentReset ==
  /\ consentState' = reset
  /\ called' = "reset"

restOfConsent == <<sessionVars, runVars, callVars, hookVars, effectVars,
                   tuiVars, bashVars, chatVars>>

NextConsent ==
  \/ \E command \in Commands, toolCallId \in ToolCallIds :
       ConsentRequest(command, toolCallId) /\ UNCHANGED restOfConsent
  \/ ConsentApprove /\ UNCHANGED restOfConsent
  \/ \E reason \in DenyReasons : ConsentDeny(reason) /\ UNCHANGED restOfConsent
  \/ ConsentReset /\ UNCHANGED restOfConsent

SpecConsent == Init /\ [][NextConsent]_vars

\* C34: requestConsent leads to blocked for a command validateCommand
\* rejects and to pending for any other; approve() and deny() turn pending
\* into decided with the same command and tool call and change no other
\* state; reset() leads to idle; decided is entered from pending only.
SameCall(a, b) == a.command = b.command /\ a.toolCallId = b.toolCallId
C34_ConsentMovesAsDocumented ==
  [][/\ called' = "requestConsent" =>
          consentState'.type =
            IF validateCommand(consentState'.command).valid
            THEN "pending" ELSE "blocked"
     /\ called' \in {"approve", "deny"} =>
          IF consentState.type = "pending"
          THEN /\ consentState'.type = "decided"
               /\ SameCall(consentState', consentState)
               /\ consentState'.response =
                    IF called' = "approve" THEN "approved" ELSE "denied"
          ELSE consentState' = consentState
     /\ called' = "reset" => consentState' = Idle
     /\ consentState'.type = "decided" /\ consentState' # consentState =>
          consentState.type = "pending"]_vars

\* deny() was called on a blocked command, and approve() on a pending one
C34_Witness ==
  \/ called = "deny" /\ consentState.type = "blocked"
  \/ called = "approve" /\ consentState.type = "decided"



(***************************************************************************)
(* ChatCommandTui: the bash tool calls of a final response, from their     *)
(* detection over the consent to the continuation request and the exit     *)
(***************************************************************************)
MaxResponses == 2

localTools == {"bash_tool"}
isLocalTool(name) == name \in localTools

ToolCall(id, name, command) == [id |-> id, name |-> name, command |-> command]

\* the tool calls a final response can hold
FinalResponses ==
  { <<>>,
    <<ToolCall(1, "bash_tool", <<"l", "s", " ", "-", "l", "a">>)>>,
    <<ToolCall(1, "bash_tool", <<>>)>>,
    <<ToolCall(1, "bash_tool", <<" ">>)>>,
    <<ToolCall(2, "bash_tool", <<"R", "M", " ", " ", "-", "r", "f", " ", "/">>)>>,
    <<ToolCall(1, "web_search", <<"l", "s", " ", "-", "l", "a">>)>>,
    <<ToolCall(1, "bash_tool", <<"l", "s", " ", "-", "l", "a">>),
      ToolCall(2, "bash_tool", <<"c", "u", "r", "l", " ", "x", " ", "|", " ", "b", "a", "s", "h">>)>>,
    <<ToolCall(2, "bash_tool", <<"e", "c", "h", "o", " ", "f", "o", "r", "k">>),
      ToolCall(1, "bash_tool", <<"l", "s", " ", "-", "l", "a">>)>> }

Keys == {"y", "Y", "n", "N", "escape", "return", "x"}

NoPending == [id |-> 0, command |-> <<>>]
TuiMounted == tuiStatus # "none" /\ exitTimer # "exited"

\* the tool calls the detection effect skips nothing of, without the test
\* of processedToolCalls
Candidates_Reprocessed ==
  {k \in 1 .. Len(toolCalls) :
     /\ isLocalTool(toolCalls[k].name)
     /\ toolCalls[k].command # <<>>}

\* the tool calls the loop of the detection effect does not skip
Candidates ==
  {k \in 1 .. Len(toolCalls) :
     /\ toolCalls[k].id \notin processedToolCalls
     /\ isLocalTool(toolCalls[k].name)
     /\ toolCalls[k].command # <<>>}

FirstOf(S) == CHOOSE k \in S : \A j \in S : k <= j

hasUnprocessedToolCalls ==
  /\ isBashEnabled
  /\ \E k \in 1 .. Len(toolCalls) :
       /\ toolCalls[k].id \notin processedToolCalls
       /\ isLocalTool(toolCalls[k].name)

\* continueConversation as called from a render in which the thread id was
\* known or not: the continuation request replaces the active request, and
\* useStream starts its next run
continueConversation(thread, toolCallId, kind) ==
  IF ~thread
  THEN UNCHANGED <<tuiStatus, toolCalls, threadKnown, answers>>
  ELSE /\ answers' = answers \cup {[id |-> toolCallId, kind |-> kind]}
       /\ tuiStatus' = "connecting"
       /\ toolCalls' = <<>>
       /\ threadKnown' = FALSE

\* the run of useStream
TuiConnected ==
  /\ TuiMounted
  /\ tuiStatus = "connecting"
  /\ tuiStatus' = "streaming"
  /\ UNCHANGED <<isBashEnabled, isAutoApprove, toolCalls, threadKnown,
                 responses, pendingBashCall, processedToolCalls, running,
                 asked, executed, answers, lastKey, exitTimer, consentVars>>

TuiMetadata ==
  /\ TuiMounted
  /\ tuiStatus = "streaming"
  /\ ~threadKnown
  /\ threadKnown' = TRUE
  /\ UNCHANGED <<isBashEnabled, isAutoApprove, tuiStatus, toolCalls,
                 responses, pendingBashCall, processedToolCalls, running,
                 asked, executed, answers, lastKey, exitTimer, consentVars>>

TuiValues(calls) ==
  /\ TuiMounted
  /\ tuiStatus = "streaming"
  /\ responses < MaxResponses
  /\ responses' = responses + 1
  /\ toolCalls' = calls
  /\ UNCHANGED <<isBashEnabled, isAutoApprove, tuiStatus, threadKnown,
                 pendingBashCall, processedToolCalls, running, asked,
                 executed, answers, lastKey, exitTimer, consentVars>>

TuiEnds(s) ==
  /\ TuiMounted
  /\ tuiStatus \in {"connecting", "streaming"}
  /\ s = "done" => tuiStatus = "streaming"
  /\ tuiStatus' = s
  /\ UNCHANGED <<isBashEnabled, isAutoApprove, toolCalls, threadKnown,
                 responses, pendingBashCall, processedToolCalls, running,
                 asked, executed, answers, lastKey, exitTimer, consentVars>>

\* the effect that detects the bash tool calls of finalResponse
TuiDetect ==
  /\ TuiMounted
  /\ isBashEnabled
  /\ toolCalls # <<>>
  /\ pendingBashCall = NoPending
  /\ ~isPending
  /\ Candidates # {}
  /\ LET toolCall == toolCalls[FirstOf(Candidates)] IN
       /\ processedToolCalls' = processedToolCalls \cup {toolCall.id}
       /\ pendingBashCall' = [id |-> toolCall.id,
                              command |-> toolCall.command]
       /\ ConsentRequest(toolCall.command, toolCall.id)
       /\ asked' = [asked EXCEPT ![toolCall.id] = @ + 1]
  /\ UNCHANGED <<isBashEnabled, isAutoApprove, tuiStatus, toolCalls,
                 threadKnown, responses, running, executed, answers, lastKey,
                 exitTimer>>

\* the effect that handles a blocked command and a decision
TuiDecide ==
  /\ TuiMounted
  /\ pendingBashCall # NoPending
  /\ consentState.type \in {"blocked", "decided"}
  /\ IF consentState.type = "decided" /\ consentState.response = "approved"
     THEN /\ running' = running \cup
                          {[id |-> consentState.toolCallId,
                            command |-> consentState.command,
                            thread |-> threadKnown]}
          /\ executed' = [executed EXCEPT ![consentState.toolCallId] = @ + 1]
          /\ UNCHANGED <<tuiStatus, toolCalls, threadKnown, answers>>
     ELSE /\ continueConversation(threadKnown, consentState.toolCallId,
                                  "denied")
          /\ UNCHANGED <<running, executed>>
  /\ pendingBashCall' = NoPending
  /\ ConsentReset
  /\ UNCHANGED <<isBashEnabled, isAutoApprove, responses,
                 processedToolCalls, asked, lastKey, exitTimer>>

\* the effect that approves by itself
TuiAutoApprove ==
  /\ TuiMounted
  /\ isAutoApprove
  /\ isPending
  /\ ConsentApprove
  /\ UNCHANGED tuiVars

\* a key while BashConsentPrompt is rendered
TuiKey(k) ==
  /\ TuiMounted
  /\ tuiStatus # "error"
  /\ isPending
  /\ ~isAutoApprove
  /\ lastKey' = k
  /\ IF k \in {"y", "Y"} THEN ConsentApprove
     ELSE IF k \in {"n", "N", "escape", "return"} THEN ConsentDeny(Undefined)
     ELSE UNCHANGED consentVars
  /\ UNCHANGED <<isBashEnabled, isAutoApprove, tuiStatus, toolCalls,
                 threadKnown, responses, pendingBashCall,
                 processedToolCalls, running, asked, executed, answers,
                 exitTimer>>

\* executeBash resolves, and executeBashCommand goes on
TuiBashResolves(call) ==
  /\ TuiMounted
  /\ call \in running
  /\ running' = running \ {call}
  /\ continueConversation(call.thread, call.id, "result")
  /\ UNCHANGED <<isBashEnabled, isAutoApprove, responses, pendingBashCall,
                 processedToolCalls, asked, executed, lastKey, exitTimer,
                 consentVars>>

\* the effect that exits on completion
TuiExitEffect ==
  /\ TuiMounted
  /\ tuiStatus \in {"done", "error"}
  /\ pendingBashCall = NoPending
  /\ ~isPending
  /\ ~hasUnprocessedToolCalls
  /\ exitTimer = "none"
  /\ exitTimer' = "scheduled"
  /\ UNCHANGED <<isBashEnabled, isAutoApprove, tuiStatus, toolCalls,
                 threadKnown, responses, pendingBashCall,
                 processedToolCalls, running, asked, executed, answers,
                 lastKey, consentVars>>

\* the timer of that effect: exit()
TuiExit ==
  /\ exitTimer = "scheduled"
  /\ exitTimer' = "exited"
  /\ UNCHANGED <<isBashEnabled, isAutoApprove, tuiStatus, toolCalls,
                 threadKnown, responses, pendingBashCall,
                 processedToolCalls, running, asked, executed, answers,
                 lastKey, consentVars>>

InitTui ==
  /\ Constructed
  /\ NoRun
  /\ NoCall
  /\ NoHook
  /\ NoEffects
  /\ NoConsent
  /\ NoBash
  /\ NoChat
  /\ isBashEnabled \in BOOLEAN
  /\ isAutoApprove \in BOOLEAN
  /\ tuiStatus = "connecting"
  /\ toolCalls = <<>>
  /\ threadKnown = FALSE
  /\ responses = 0
  /\ pendingBashCall = NoPending
  /\ processedToolCalls = {}
  /\ running = {}
  /\ asked = [i \in ToolCallIds |-> 0]
  /\ executed = [i \in ToolCallIds |-> 0]
  /\ answers = {}
  /\ lastKey = "none"
  /\ exitTimer = "none"

restOfTui == <<sessionVars, runVars, callVars, hookVars, effectVars,
               bashVars, chatVars>>

NextTui ==
  \/ TuiConnected /\ UNCHANGED restOfTui
  \/ TuiMetadata /\ UNCHANGED restOfTui
  \/ \E calls \in FinalResponses : TuiValues(calls) /\ UNCHANGED restOfTui
  \/ \E s \in {"done", "error"} : TuiEnds(s) /\ UNCHANGED restOfTui
  \/ TuiDetect /\ UNCHANGED restOfTui
  \/ TuiDecide /\ UNCHANGED restOfTui
  \/ TuiAutoApprove /\ UNCHANGED restOfTui
  \/ \E k \in Keys : TuiKey(k) /\ UNCHANGED restOfTui
  \/ \E call \in running : TuiBashResolves(call) /\ UNCHANGED restOfTui
  \/ TuiExitEffect /\ UNCHANGED restOfTui
  \/ TuiExit /\ UNCHANGED restOfTui

SpecTui == InitTui /\ [][NextTui]_vars



(***************************************************************************)
(* Properties of the bash tool calls in ChatCommandTui                     *)
(***************************************************************************)
\* nothing is left for the effects and for executeBash to do
TuiAtRest ==
  /\ tuiStatus \in {"done", "error"}
  /\ pendingBashCall = NoPending
  /\ consentState = Idle
  /\ running = {}
  /\ Candidates = {}

\* C35: with the bash tool enabled and the thread id known, once the
\* interface is at rest every bash tool call of the final response whose
\* command validateCommand rejects has been answered with a denied result.
C35_RejectedCommandAnswered ==
  isBashEnabled /\ threadKnown /\ TuiAtRest =>
    \A k \in 1 .. Len(toolCalls) :
      isLocalTool(toolCalls[k].name)
        /\ ~validateCommand(toolCalls[k].command).valid =>
          [id |-> toolCalls[k].id, kind |-> "denied"] \in answers

\* C36: executeBash is called only in the state decided/approved of the
\* tool call it is called for; that state is entered from pending only,
\* by the key y or by auto-approve; and no tool call is asked about or
\* executed more than once.
C36_ExecutionNeedsApproval ==
  [][/\ executed' # executed =>
          /\ consentState.type = "decided"
          /\ consentState.response = "approved"
          /\ executed' =
               [executed EXCEPT ![consentState.toolCallId] = @ + 1]
     /\ consentState'.type = "decided" /\ consentState' # consentState =>
          /\ consentState.type = "pending"
          /\ SameCall(consentState', consentState)
          /\ consentState'.response = "approved" =>
               isAutoApprove \/ lastKey' \in {"y", "Y"}
     /\ \A id \in ToolCallIds : asked'[id] <= 1 /\ executed'[id] <= 1]_vars

\* a tool call was executed after the key y and its result was sent; the
\* final response of the next run holds the same tool call again
C36_Witness ==
  /\ ~isAutoApprove
  /\ lastKey = "y"
  /\ \E k \in 1 .. Len(toolCalls) :
       /\ isLocalTool(toolCalls[k].name)
       /\ [id |-> toolCalls[k].id, kind |-> "result"] \in answers
       /\ executed[toolCalls[k].id] = 1
  /\ TuiAtRest

\* C37: the effect that exits on completion never starts its timer while
\* a call of executeBash has not resolved.
C37_NoExitWhileExecuting ==
  [][exitTimer = "none" /\ exitTimer' = "scheduled" => running = {}]_vars



(***************************************************************************)
(* executeBash: the child process, its output and its timeout              *)
(***************************************************************************)
\* the option maxOutput, in bytes
maxOutput == 4
\* the longest chunk of output, and the most a process writes to a stream
MaxChunk == 3
MaxWritten == 6

\* a word followed by white space and a given text
WordThen(s, i, w, next) ==
  /\ BoundaryAt(s, i)
  /\ OccursAt(s, i, w)
  /\ \E q \in (i + Len(w) + 1) .. Len(s) :
       SpaceFrom(s, i + Len(w), q) /\ OccursAt(s, q, next)

isInteractiveCommand(s) ==
  \E i \in 1 .. Len(s) :
    \/ \E w \in {<<"v", "i">>, <<"v", "i", "m">>, <<"n", "a", "n", "o">>, <<"e", "m", "a", "c", "s">>, <<"p", "a", "s", "s", "w", "d">>} :
         WordAt(s, i, w)
    \/ \E w \in {<<"l", "e", "s", "s">>, <<"m", "o", "r", "e">>} :
         WordAt(s, i, w) /\ ~WordThen(s, i, w, <<"-">>)
    \/ WordAt(s, i, <<"r", "e", "a", "d">>) /\ WordThen(s, i, <<"r", "e", "a", "d">>, <<"-", "p">>)
    \/ /\ WordAt(s, i, <<"s", "s", "h">>)
       /\ ~\E p \in (i + 3) .. Len(s) : \E q \in (p + 2) .. Len(s) :
            /\ AnyFrom(s, i + 3, p)
            /\ OccursAt(s, p, <<"-", "o">>)
            /\ SpaceFrom(s, p + 2, q)
            /\ OccursAt(s, q, <<"B", "a", "t", "c", "h", "M", "o", "d", "e">>)
    \/ WordThen(s, i, <<"s", "u", "d", "o">>, <<"-", "S">>)
    \/ \E w \in {<<"t", "o", "p">>, <<"h", "t", "o", "p">>} :
         WordAt(s, i, w) /\ i + Len(w) - 1 = Len(s)

BashCommands ==
  { <<>>, <<"l", "s", " ", "-", "l", "a">>, <<"R", "M", " ", " ", "-", "r", "f", " ", "/">>, <<"v", "i", "m", " ", "a">>, <<"l", "e", "s", "s", " ", "-", "N", " ", "f">>, <<"l", "e", "s", "s", " ", "f">>,
    <<"t", "o", "p">>, <<"s", "s", "h", " ", "-", "o", " ", "B", "a", "t", "c", "h", "M", "o", "d", "e", "=", "y", "e", "s", " ", "h">>, <<"s", "s", "h", " ", "h">>, <<"s", "u", "d", "o", " ", " ", "-", "S", " ", "i", "d">> }
Platforms == {"linux", "win32"}
OutputStreams == {"stdout", "stderr"}
ExitCodes == {0, 1, 128}

\* what executeBash returns without a process
Refused ==
  [exitCode |-> 1, timedOut |-> FALSE, truncated |-> FALSE,
   stdout |-> <<>>, stderr |-> <<>>]

\* the call of executeBash, up to the spawn
BashCall(c, platform) ==
  /\ child = "none"
  /\ resolves = 0
  /\ bashCommand' = c
  /\ IF \/ ~validateCommand(c).valid
        \/ isInteractiveCommand(c)
        \/ platform = "win32"
     THEN /\ resolves' = 1
          /\ bashResult' = Refused
          /\ UNCHANGED <<child, timeoutTimer>>
     ELSE /\ child' = "running"
          /\ timeoutTimer' = "armed"
          /\ UNCHANGED <<resolves, bashResult>>
  /\ UNCHANGED <<childKilled, signals, killTimer, timedOut, written,
                 captured, sizes, truncated, dropped>>

\* how many bytes of a chunk of n bytes the handler of a stream keeps
Kept(size, n) ==
  IF size + n <= maxOutput THEN n
  ELSE IF ~truncated THEN maxOutput - size
  ELSE 0

\* the handler of 'data' of stdout or of stderr
BashData(s, n) ==
  /\ child \in {"running", "exited"}
  /\ written[s] + n <= MaxWritten
  /\ written' = [written EXCEPT ![s] = @ + n]
  /\ captured' =
       [captured EXCEPT
          ![s] = @ \o [i \in 1 .. Kept(sizes[s], n) |-> written[s] + i]]
  /\ sizes' = [sizes EXCEPT ![s] = @ + Kept(@, n)]
  /\ truncated' = (truncated \/ sizes[s] + n > maxOutput)
  /\ dropped' = (dropped \/ Kept(sizes[s], n) < n)
  /\ UNCHANGED <<bashCommand, child, childKilled, signals, timeoutTimer,
                 killTimer, timedOut, resolves, bashResult>>

\* child.kill(signal): the signal is sent while the process exists, and
\* child.killed is set once a signal was sent
Kill(signal) ==
  IF child = "running"
  THEN signals' = Append(signals, signal) /\ childKilled' = TRUE
  ELSE UNCHANGED <<signals, childKilled>>

\* the callback of the timeout
BashTimeout ==
  /\ timeoutTimer = "armed"
  /\ timeoutTimer' = "fired"
  /\ timedOut' = TRUE
  /\ Kill("SIGTERM")
  /\ killTimer' = "armed"
  /\ UNCHANGED <<bashCommand, child, resolves, bashResult, written,
                 captured, sizes, truncated, dropped>>

\* the callback of the timer of 2 seconds
BashKillTimer ==
  /\ killTimer = "armed"
  /\ killTimer' = "fired"
  /\ IF ~childKilled THEN Kill("SIGKILL")
     ELSE UNCHANGED <<signals, childKilled>>
  /\ UNCHANGED <<bashCommand, child, timeoutTimer, timedOut, resolves,
                 bashResult, written, captured, sizes, truncated, dropped>>

\* the process ends, by itself or by a signal it does not ignore
BashProcessEnds ==
  /\ child = "running"
  /\ child' = "exited"
  /\ UNCHANGED <<bashCommand, childKilled, signals, timeoutTimer, killTimer,
                 timedOut, resolves, bashResult, written, captured, sizes,
                 truncated, dropped>>

\* resolve(value): the first call settles the promise
Resolve(value) ==
  /\ resolves' = resolves + 1
  /\ bashResult' = IF resolves = 0 THEN value ELSE bashResult

\* the handler of 'close'
BashClose(code) ==
  /\ child = "exited"
  /\ child' = "closed"
  /\ timeoutTimer' = IF timeoutTimer = "armed" THEN "cleared"
                     ELSE timeoutTimer
  /\ Resolve([exitCode |-> code, timedOut |-> timedOut,
              truncated |-> truncated, stdout |-> captured.stdout,
              stderr |-> captured.stderr])
  /\ UNCHANGED <<bashCommand, childKilled, signals, killTimer, timedOut,
                 written, captured, sizes, truncated, dropped>>

\* the handler of 'error': the process could not be started
BashError ==
  /\ child = "running"
  /\ written = [stdout |-> 0, stderr |-> 0]
  /\ signals = <<>>
  /\ timeoutTimer = "armed"
  /\ child' = "failed"
  /\ timeoutTimer' = "cleared"
  /\ Resolve(Refused)
  /\ UNCHANGED <<bashCommand, childKilled, signals, killTimer, timedOut,
                 written, captured, sizes, truncated, dropped>>

restOfBash == <<sessionVars, runVars, callVars, hookVars, effectVars,
                consentVars, tuiVars, chatVars>>

NextBash ==
  \/ \E c \in BashCommands, platform \in Platforms :
       BashCall(c, platform) /\ UNCHANGED restOfBash
  \/ \E s \in OutputStreams, n \in 1 .. MaxChunk :
       BashData(s, n) /\ UNCHANGED restOfBash
  \/ BashTimeout /\ UNCHANGED restOfBash
  \/ BashKillTimer /\ UNCHANGED restOfBash
  \/ BashProcessEnds /\ UNCHANGED restOfBash
  \/ \E code \in ExitCodes : BashClose(code) /\ UNCHANGED restOfBash
  \/ BashError /\ UNCHANGED restOfBash

SpecBash == Init /\ [][NextBash]_vars

\* C38: when the timer of 2 seconds runs out and the process is still
\* running, SIGKILL is sent to it.
C38_StillRunningIsKilled ==
  [][killTimer = "armed" /\ killTimer' = "fired" /\ child = "running"
       => signals' # <<>> /\ Last(signals') = "SIGKILL"]_vars

\* C39: what is kept of stdout and of stderr is a prefix of what the
\* process wrote there and has at most maxOutput bytes, and truncated is
\* set exactly when a byte was not kept.
IsPrefixOfWritten(kept) == kept = [i \in 1 .. Len(kept) |-> i]
C39_CapturedIsPrefix ==
  /\ \A s \in OutputStreams :
       IsPrefixOfWritten(captured[s]) /\ Len(captured[s]) <= maxOutput
  /\ truncated <=> dropped



(***************************************************************************)
(* streamChat and its callbacks, as the interactive chat uses them         *)
(***************************************************************************)
MaxMessages == 2

\* what parseStreamEvent returns
StreamResponse(type, data) ==
  [type |-> type, data |-> data, error |-> Undefined]
StreamError(message) ==
  [type |-> "error", data |-> Undefined, error |-> message]

ParsedStreamEvent(r) ==
  IF ~r.ok THEN StreamError(JStr(<<"F", "a", "i", "l", "e", "d", " ", "t", "o", " ", "p", "a", "r", "s", "e", " ", "e", "v", "e", "n", "t", " ", "d", "a", "t", "a">>))
  ELSE IF r.val.t # "arr" THEN StreamError(JStr(<<"I", "n", "v", "a", "l", "i", "d", " ", "e", "v", "e", "n", "t", " ", "f", "o", "r", "m", "a", "t">>))
  ELSE IF Len(r.val.a) < 2 THEN StreamError(JStr(<<"I", "n", "v", "a", "l", "i", "d", " ", "e", "v", "e", "n", "t", " ", "f", "o", "r", "m", "a", "t">>))
  ELSE IF r.val.a[1] = JStr(StrMessages)
       THEN StreamResponse("messages", r.val.a[2])
  ELSE IF r.val.a[1] = JStr(StrValues)
       THEN StreamResponse("values", r.val.a[2])
  ELSE IF r.val.a[1] = JStr(StrError)
       THEN StreamError(IF r.val.a[2].t = "str" THEN r.val.a[2]
                        ELSE JStr(JSONStringify(r.val.a[2])))
  ELSE StreamResponse("unknown", r.val.a[2])

parseStreamEvent(eventData) ==
  IF eventData = <<>> \/ Trim(eventData) = <<>>
  THEN StreamError(JStr(<<"E", "m", "p", "t", "y", " ", "e", "v", "e", "n", "t", " ", "d", "a", "t", "a">>))
  ELSE ParsedStreamEvent(JSONParse(eventData))

\* a call of a callback
Callback(name, value) == [name |-> name, value |-> value]

\* the state processSseLine works on: accumulatedContent.value and the
\* callbacks invoked
Processed(value, invoked) == [value |-> value, invoked |-> invoked]

\* processSseLine from `if (content)` on
ProcessContent(content, st) ==
  IF content = <<>> \/ Slice(content, Len(st.value)) = <<>> THEN st
  ELSE Processed(content,
                 Append(st.invoked,
                        Callback("onToken",
                                 JStr(Slice(content, Len(st.value))))))

\* processSseLine for the parsed event
ProcessParsed(event, st) ==
  IF event.type = "error"
  THEN Processed(st.value,
                 Append(st.invoked, Callback("onError", event.error)))
  ELSE IF event.type = "messages" /\ Truthy(event.data)
       THEN IF event.data.t = "arr" /\ Len(event.data.a) > 0
            THEN ProcessContent(
                   extractContentFromPayload(event.data.a[1]).s, st)
            ELSE st
       ELSE st

processSseLine(line, st) ==
  IF ~StartsWith(line, DataPrefix) THEN st
  ELSE ProcessParsed(parseStreamEvent(Slice(line, 6)), st)

RECURSIVE processBufferedLines(_, _)
processBufferedLines(lines, st) ==
  IF lines = <<>> THEN st
  ELSE processBufferedLines(
         Tail(lines),
         IF Trim(Head(lines)) # <<>> THEN processSseLine(Head(lines), st)
         ELSE st)

ChatLineToken == <<"d", "a", "t", "a", ":", " ", "[", "\"", "m", "e", "s", "s", "a", "g", "e", "s", "\"", ",", "[", "{", "\"", "c", "o", "n", "t", "e", "n", "t", "\"", ":", "\"", "H", "i", "\"", "}", "]", "]">>
ChatLineMore == <<"d", "a", "t", "a", ":", " ", "[", "\"", "m", "e", "s", "s", "a", "g", "e", "s", "\"", ",", "[", "{", "\"", "c", "o", "n", "t", "e", "n", "t", "\"", ":", "\"", "H", "i", "!", "\"", "}", "]", "]">>
ChatLineError == <<"d", "a", "t", "a", ":", " ", "[", "\"", "e", "r", "r", "o", "r", "\"", ",", "\"", "b", "a", "d", "\"", "]">>
ChatLineBroken == <<"d", "a", "t", "a", ":", " ", "{", "o", "o", "p", "s">>
ChatLineValues == <<"d", "a", "t", "a", ":", " ", "[", "\"", "v", "a", "l", "u", "e", "s", "\"", ",", "{", "}", "]">>
ChatLineComment == <<":", " ", "p", "i", "n", "g">>

\* the bodies the server answers with, as the chunks that arrive
ChatBodies ==
  { <<>>,
    <<ChatLineToken \o NL, ChatLineMore \o NL>>,
    <<ChatLineToken \o NL, ChatLineMore \o NL, ChatLineValues>>,
    <<ChatLineComment \o NL \o SubSeq(ChatLineToken, 1, 9),
      SubSeq(ChatLineToken, 10, Len(ChatLineToken)) \o NL>>,
    <<ChatLineError \o NL, ChatLineToken \o NL>>,
    <<ChatLineToken \o NL, ChatLineBroken \o NL>>,
    <<ChatLineValues \o NL, ChatLineError>>,
    <<ChatLineComment \o NL \o ChatLineBroken>>,
    <<ChatLineError \o NL>> }

\* the bodies of an answer that is not ok
ChatErrorBodies == {<<>>, <<"o", "o", "p", "s">>, <<"n", "u", "l", "l">>, <<"{", "\"", "d", "e", "t", "a", "i", "l", "\"", ":", "\"", "n", "o", "\"", "}">>, <<"{", "}">>}

\* the errors fetch and reader.read() reject with
ChatFailures ==
  { [name |-> "AbortError", message |-> JStr(MsgAborted)],
    [name |-> "TypeError", message |-> JStr(MsgFetchFailed)] }

\* the message streamChat reports for an answer that is not ok
ChatErrorDetail(st, errorBody, r) ==
  IF ~r.ok \/ Nullish(r.val)
  THEN IF errorBody # <<>> THEN JStr(errorBody) ELSE HttpMessage(st)
  ELSE IF ~Nullish(Get(r.val, KeyDetail)) THEN Get(r.val, KeyDetail)
  ELSE HttpMessage(st)

ChatErrorMessage(st, errorBody) ==
  ChatErrorDetail(st, errorBody, JSONParse(errorBody))

\* the step the callbacks of handleSendMessage leave
RECURSIVE StepAfter(_, _)
StepAfter(invoked, before) ==
  IF invoked = <<>> THEN before
  ELSE StepAfter(Tail(invoked),
                 IF Head(invoked).name = "onError" THEN "error"
                 ELSE IF Head(invoked).name = "onComplete" THEN "input"
                 ELSE before)

\* streamChat invokes callbacks
Invoke(invoked) ==
  /\ callbacks' = callbacks \o invoked
  /\ step' = StepAfter(invoked, step)

\* the catch blocks of streamChat
ChatCaught(failure) ==
  Invoke(IF failure.name = "AbortError"
         THEN <<Callback("onComplete", Undefined)>>
         ELSE <<Callback("onError", failure.message)>>)

\* handleSendMessage calls streamChat
ChatSend ==
  /\ chat \in {"none", "returned"}
  /\ step = "input"
  /\ sent < MaxMessages
  /\ sent' = sent + 1
  /\ chat' = "fetching"
  /\ step' = "streaming"
  /\ callbacks' = <<>>
  /\ chatBody' = <<>>
  /\ chatBuffer' = <<>>
  /\ accumulatedContent' = <<>>

\* fetch rejects
ChatFetchFails(failure) ==
  /\ chat = "fetching"
  /\ ChatCaught(failure)
  /\ chat' = "returned"
  /\ UNCHANGED <<chatBody, chatBuffer, accumulatedContent, sent>>

\* the answer is not ok
ChatRefused(st, errorBody) ==
  /\ chat = "fetching"
  /\ Invoke(<<Callback("onError", ChatErrorMessage(st, errorBody))>>)
  /\ chat' = "returned"
  /\ UNCHANGED <<chatBody, chatBuffer, accumulatedContent, sent>>

\* the answer is ok and has no body
ChatNoBody ==
  /\ chat = "fetching"
  /\ Invoke(<<Callback("onError", JStr(MsgNoBody))>>)
  /\ chat' = "returned"
  /\ UNCHANGED <<chatBody, chatBuffer, accumulatedContent, sent>>

\* the answer is ok
ChatAnswered(body) ==
  /\ chat = "fetching"
  /\ chat' = "reading"
  /\ chatBody' = body
  /\ UNCHANGED <<chatBuffer, accumulatedContent, callbacks, step, sent>>

\* what the loop of processSseStream does with a chunk
ChatChunkDone(lines) ==
  /\ chatBuffer' = Last(lines)
  /\ accumulatedContent' =
       processBufferedLines(SubSeq(lines, 1, Len(lines) - 1),
                            Processed(accumulatedContent, <<>>)).value
  /\ Invoke(processBufferedLines(SubSeq(lines, 1, Len(lines) - 1),
                                 Processed(accumulatedContent, <<>>)).invoked)

\* reader.read() delivers a chunk
ChatRead ==
  /\ chat = "reading"
  /\ chatBody # <<>>
  /\ chatBody' = Tail(chatBody)
  /\ ChatChunkDone(Split(chatBuffer \o Head(chatBody)))
  /\ UNCHANGED <<chat, sent>>

\* the lines of the rest of the buffer at the end of the body
RemainingLines == IF Trim(chatBuffer) # <<>> THEN Split(chatBuffer) ELSE <<>>

\* reader.read() delivers done
ChatDone ==
  /\ chat = "reading"
  /\ chatBody = <<>>
  /\ accumulatedContent' =
       processBufferedLines(RemainingLines,
                            Processed(accumulatedContent, <<>>)).value
  /\ Invoke(Append(processBufferedLines(
                     RemainingLines,
                     Processed(accumulatedContent, <<>>)).invoked,
                   Callback("onComplete", Undefined)))
  /\ chat' = "returned"
  /\ UNCHANGED <<chatBody, chatBuffer, sent>>

\* reader.read() rejects
ChatReadFails(failure) ==
  /\ chat = "reading"
  /\ ChatCaught(failure)
  /\ chat' = "returned"
  /\ UNCHANGED <<chatBody, chatBuffer, accumulatedContent, sent>>

HttpStatuses == {401, 500}

restOfChat == <<sessionVars, runVars, callVars, hookVars, effectVars,
                consentVars, tuiVars, bashVars>>

NextChat ==
  \/ ChatSend /\ UNCHANGED restOfChat
  \/ \E failure \in ChatFailures :
       ChatFetchFails(failure) /\ UNCHANGED restOfChat
  \/ \E st \in HttpStatuses, errorBody \in ChatErrorBodies :
       ChatRefused(st, errorBody) /\ UNCHANGED restOfChat
  \/ ChatNoBody /\ UNCHANGED restOfChat
  \/ \E body \in ChatBodies : ChatAnswered(body) /\ UNCHANGED restOfChat
  \/ ChatRead /\ UNCHANGED restOfChat
  \/ ChatDone /\ UNCHANGED restOfChat
  \/ \E failure \in ChatFailures :
       ChatReadFails(failure) /\ UNCHANGED restOfChat

SpecChat == Init /\ [][NextChat]_vars

\* the callbacks that end a call
Terminal == {"onComplete", "onError"}

\* C40: streamChat invokes nothing after onComplete or onError, and when
\* it returns the last callback it invoked is one of the two; the chat
\* leaves the step error for no other step.
C40_OneTerminalCallback ==
  /\ \A i \in 1 .. Len(callbacks) :
       callbacks[i].name \in Terminal => i = Len(callbacks)
  /\ chat = "returned" =>
       /\ callbacks # <<>>
       /\ Last(callbacks).name \in Terminal
       /\ step = IF Last(callbacks).name = "onError" THEN "error"
                 ELSE "input"

====
